---- MODULE Spec2Model ----
(***************************************************************************)
(* A model of the context-acquisition pipeline of the "flash" review       *)
(* action: the diff position mapper and review submission of               *)
(* GitHubService, the codebase indexer (CodeIndexer) and the retrying      *)
(* remote fetcher.  Text (paths, patch lines, file contents) is modelled   *)
(* as sequences of one-character strings, so that startsWith, includes,    *)
(* endsWith, split and the regular expressions of the source are computed  *)
(* and not assumed.                                                        *)
(***************************************************************************)
EXTENDS Integers, Sequences, FiniteSets, TLC

VARIABLES
    \* calculateDiffPosition, one call: its arguments, the split lines, the
    \* index of the next line, the loop's counters, the returned value
    mPc, mPatch, mTarget, mLines, mIdx, mSt, mResult,
    \* createReview, one call: its comments argument, the files listFiles
    \* answered, the comments sent to pulls.createReview, the warnings
    \* logged, the rejection that ended it
    rPc, rComments, rListing, rPayload, rWarnings, rError,
    \* withRetry, one call: the outcome of every attempt made, the next
    \* backoff delay, the wait in progress, the waits made, the warnings
    \* logged, the value returned, the error raised
    wPc, wPolicy, wOutcomes, wDelay, wPending, wWaits, wWarnings, wResult, wRaised,
    \* indexCodebase: the provider and the changed files it is called with;
    \* which of two successive calls is running and what the first returned;
    \* the fetch order, the start of the current batch, the batch's results
    \* and the fetches still in flight; the locals files, imports and
    \* dependencies; the warnings logged; the value returned
    iPc, iProvider, iPrioritized, iRun, iFirst, iTsFiles, iBatchStart, iContents,
    iInFlight, iFiles, iImports, iDependencies, iWarnings, iResult,
    \* the scanner applied to one content: the content, the declarations and
    \* the imports extracted from it
    sPc, sContent, sDeclarations, sImports,
    \* findDeclarationLocation, one call: the content and the index of the
    \* match, the split lines and the start line, the loop index, braceCount
    \* and inComment of the line walk, endLine, and the lines the walk has
    \* examined with the brace count after each
    lPc, lContent, lStartIndex, lLines, lStart, lI, lBrace, lInComment, lEnd, lVisited,
    \* getTypeScriptFiles, one call: the provider, the changed files and the
    \* import map it is called with, the candidates of the traversal, and
    \* what it answers
    gPc, gProvider, gPrioritized, gImports, gFiles, gResult,
    \* processReview, one call: the action's configuration, the review the
    \* model answered, the remote call that fails (if any), the event of the
    \* posted review, the approvePullRequest and mergePullRequest calls
    \* made, whether the call rethrew
    pPc, pConfig, pReview, pFailAt, pEvent, pApprovals, pMerges, pRaised

mapperVars == <<mPc, mPatch, mTarget, mLines, mIdx, mSt, mResult>>

reviewVars == <<rPc, rComments, rListing, rPayload, rWarnings, rError>>

retryVars ==
    <<wPc, wPolicy, wOutcomes, wDelay, wPending, wWaits, wWarnings, wResult, wRaised>>

indexVars ==
    <<iPc, iProvider, iPrioritized, iRun, iFirst, iTsFiles, iBatchStart, iContents,
      iInFlight, iFiles, iImports, iDependencies, iWarnings, iResult>>

scanVars == <<sPc, sContent, sDeclarations, sImports>>

locateVars ==
    <<lPc, lContent, lStartIndex, lLines, lStart, lI, lBrace, lInComment, lEnd, lVisited>>

selectVars == <<gPc, gProvider, gPrioritized, gImports, gFiles, gResult>>

workflowVars == <<pPc, pConfig, pReview, pFailAt, pEvent, pApprovals, pMerges, pRaised>>

vars ==
    <<mapperVars, reviewVars, retryVars, indexVars, scanVars, locateVars, selectVars,
      workflowVars>>

(***************************************************************************)
(* Bounds of the model.                                                    *)
(***************************************************************************)
\* longest patch (in lines) the mapper is run on
MaxPatchLen == 3
\* largest small target line tried (besides the ones around line 20)
MaxTarget == 3
\* longest list of inline comments handed to createReview
MaxComments == 2
MaxScanLines == 3
MaxImportLines == 2
\* most files below lib/ in a repository getTypeScriptFiles is run on
MaxLibFiles == 102

(***************************************************************************)
(* Text helpers: the JavaScript string operations the source uses.         *)
(***************************************************************************)
\* `undefined` where a text is expected: a sequence that is no text, since
\* its only element is not one character
Undefined == <<"undefined">>
\* `number | null`: null is the empty sequence, a number n is <<n>>
Null == <<>>
Some(n) == <<n>>

Digits == <<"0", "1", "2", "3", "4", "5", "6", "7", "8", "9">>

IsDigit(c) == \E d \in 1..10 : Digits[d] = c

DigitVal(c) == (CHOOSE d \in 1..10 : Digits[d] = c) - 1

\* String.prototype.startsWith(t, i): t occurs in s at 1-based index i
OccursAt(s, t, i) ==
    /\ i >= 1
    /\ i + Len(t) - 1 <= Len(s)
    /\ \A k \in 1..Len(t) : s[i + k - 1] = t[k]

StartsWith(s, t) == OccursAt(s, t, 1)

EndsWith(s, t) == Len(t) <= Len(s) /\ OccursAt(s, t, Len(s) - Len(t) + 1)

Includes(s, t) == \E i \in 1..(Len(s) + 1) : OccursAt(s, t, i)

\* the least element of a set of numbers, d when the set is empty
LeastOr(S, d) == IF S = {} THEN d ELSE CHOOSE x \in S : \A y \in S : x <= y

\* end (exclusive) of the longest run of digits of s that starts at i
DigitRunEnd(s, i) ==
    IF i > Len(s) THEN i
    ELSE LeastOr({j \in i..Len(s) : ~IsDigit(s[j])}, Len(s) + 1)

\* parseInt(s[i..j-1], 10) for a run of digits
RECURSIVE ParseInt(_, _, _)
ParseInt(s, i, j) ==
    IF j <= i THEN 0 ELSE ParseInt(s, i, j - 1) * 10 + DigitVal(s[j - 1])

\* s.slice(i - 1, j - 1): the characters i .. j-1
Slice(s, i, j) == [k \in 1..(j - i) |-> s[i + k - 1]]

\* String.prototype.split(sep) for a separator of one character: piece k
\* lies between the (k-1)th and the kth separator
SplitAt(s, sep) ==
    LET at == {i \in 1..Len(s) : s[i] = sep}
        before(x) == Cardinality({i \in at : i < x})
        from(k) == CHOOSE x \in at \cup {0} : before(x + 1) = k - 1
        to(k) == CHOOSE y \in at \cup {Len(s) + 1} : before(y) = k - 1
    IN  [k \in 1..(Cardinality(at) + 1) |-> Slice(s, from(k) + 1, to(k))]

\* String.prototype.split('\n') of a text
SplitLines(s) == SplitAt(s, "\n")

\* Array.prototype.join('\n')
RECURSIVE JoinLines(_)
JoinLines(ls) ==
    IF Len(ls) = 0 THEN <<>>
    ELSE IF Len(ls) = 1 THEN ls[1]
    ELSE ls[1] \o <<"\n">> \o JoinLines(Tail(ls))

\* the sequences over S of length lo..hi
SeqsOf(S, lo, hi) == UNION {[1..n -> S] : n \in lo..hi}

(***************************************************************************)
(* Patch lines the mapper is exercised with.                               *)
(***************************************************************************)
\* "@@ -10,5 +20,5 @@"
HunkAt20 == <<"@", "@", " ", "-", "1", "0", ",", "5", " ", "+", "2", "0", ",", "5", " ", "@", "@">>
\* "@@ -1 +1 @@"  (no lengths)
HunkAt1 == <<"@", "@", " ", "-", "1", " ", "+", "1", " ", "@", "@">>
\* "@@ -1,2 +0,0 @@ f"  (a file emptied by the change, with a section heading)
HunkAt0 == <<"@", "@", " ", "-", "1", ",", "2", " ", "+", "0", ",", "0", " ", "@", "@", " ", "f">>
\* "@@ x"  (starts like a hunk header, does not match the pattern)
HunkBad == <<"@", "@", " ", "x">>
ContextLine == <<" ", "x">>
AdditionLine == <<"+", "x">>
DeletionLine == <<"-", "x">>
EmptyLine == <<>>
\* "\ No newline at end of file", shortened
NoNewlineLine == <<"\\", " ", "N">>

PatchLines ==
    {HunkAt20, HunkAt1, HunkAt0, HunkBad, ContextLine, AdditionLine, DeletionLine,
     EmptyLine, NoNewlineLine}

\* a patch text is the join of its lines; the mapper sees it through split
PatchTexts == {JoinLines(ls) : ls \in SeqsOf(PatchLines, 1, MaxPatchLen)}

TargetLines == ((0 - 1)..MaxTarget) \cup {19, 20, 21}

(***************************************************************************)
(* GitHubService.calculateDiffPosition                                     *)
(***************************************************************************)
AtAt == <<"@", "@">>

\* where the optional group (?:,\d+)? ends when tried at i
OptLenEnd(s, i) ==
    IF i <= Len(s) /\ s[i] = "," /\ DigitRunEnd(s, i + 1) > i + 1
    THEN DigitRunEnd(s, i + 1)
    ELSE i

\* /@@ -\d+(?:,\d+)? \+(\d+)(?:,\d+)? @@/ tried at index i: the capture
\* group as <<from, to>> (to exclusive), or <<>> when there is no match at i
HunkMatchAt(s, i) ==
    LET a == i + 4
        b == DigitRunEnd(s, a)
        c == OptLenEnd(s, b)
        d == c + 2
        e == DigitRunEnd(s, d)
        f == OptLenEnd(s, e)
    IN  IF /\ OccursAt(s, <<"@", "@", " ", "-">>, i)
           /\ b > a
           /\ OccursAt(s, <<" ", "+">>, c)
           /\ e > d
           /\ OccursAt(s, <<" ", "@", "@">>, f)
        THEN <<d, e>>
        ELSE <<>>

\* line.match(...): the first index that matches, scanning left to right
HunkMatch(s) ==
    IF \E i \in 1..Len(s) : HunkMatchAt(s, i) # <<>>
    THEN HunkMatchAt(s, CHOOSE i \in 1..Len(s) :
                            /\ HunkMatchAt(s, i) # <<>>
                            /\ \A k \in 1..(i - 1) : HunkMatchAt(s, k) = <<>>)
    ELSE <<>>

\* a position counter that starts at 1 instead of 0
DiffStartOffByOne == [currentLine |-> 0, diffPosition |-> 1, result |-> Null]

\* the loop's local state before the first line
DiffStart == [currentLine |-> 0, diffPosition |-> 0, result |-> Null]

\* the hunk's start taken as the line already reached
HunkCurrentLineNoDecrement(m, line) == ParseInt(line, m[1], m[2])

\* currentLine = parseInt(match[1], 10) - 1
HunkCurrentLine(m, line) == ParseInt(line, m[1], m[2]) - 1

\* a counter that deletion lines advance too
AdvanceOnDeletion(cur, line) == cur + 1

\* currentLine after a line that is no hunk header
Advance(cur, line) == IF ~StartsWith(line, <<"-">>) THEN cur + 1 ELSE cur

\* one iteration of `for (const line of lines)` for target line t
DiffStep(st, line, t) ==
    IF StartsWith(line, AtAt)
    THEN LET m == HunkMatch(line)
         IN  [st EXCEPT !.currentLine = IF m # <<>> THEN HunkCurrentLine(m, line) ELSE @,
                        !.diffPosition = @ + 1]
    ELSE LET cur == Advance(st.currentLine, line)
             pos == st.diffPosition + 1
         IN  [currentLine |-> cur, diffPosition |-> pos,
              result |-> IF cur = t THEN Some(pos) ELSE Null]

\* the loop from line i on; it leaves at the first iteration that returns
RECURSIVE DiffLoop(_, _, _, _)
DiffLoop(lines, i, st, t) ==
    IF i > Len(lines) THEN Null
    ELSE LET nx == DiffStep(st, lines[i], t)
         IN  IF nx.result # Null THEN nx.result ELSE DiffLoop(lines, i + 1, nx, t)

\* `!patch`: undefined or the empty string
Falsy(text) == text = Undefined \/ text = <<>>

calculateDiffPosition(patch, targetLine) ==
    IF Falsy(patch) THEN Null
    ELSE DiffLoop(SplitLines(patch), 1, DiffStart, targetLine)

(***************************************************************************)
(* GitHubService.createReview                                              *)
(***************************************************************************)
\* `T[] | undefined`: undefined is the empty sequence, a list l is <<l>>
NoList == <<>>

\* new Map(files.map((file) => [file.filename, file.patch])).get(path):
\* the patch of the last entry of that name, undefined when there is none
MapGet(listing, path) ==
    LET hits == {k \in 1..Len(listing) : listing[k].filename = path}
    IN  IF hits = {} THEN Undefined
        ELSE listing[CHOOSE k \in hits : \A h \in hits : h <= k].patch

\* a comment that keeps the reviewer's line as its position
MappedCommentUnmapped(comment, position) ==
    [path |-> comment.path, position |-> comment.position, body |-> comment.body]

\* the comment as it is submitted at a mapped position
MappedComment(comment, position) ==
    [path |-> comment.path, position |-> position, body |-> comment.body]

\* comments.flatMap(...): the mapped comments, the unmapped ones left out
RECURSIVE ValidComments(_, _)
ValidComments(comments, listing) ==
    IF comments = <<>> THEN <<>>
    ELSE LET comment == Head(comments)
             position == calculateDiffPosition(MapGet(listing, comment.path),
                                               comment.position)
         IN  (IF position # Null THEN <<MappedComment(comment, position[1])>> ELSE <<>>)
             \o ValidComments(Tail(comments), listing)

\* the core.warning calls of the flatMap: one per comment left out
RECURSIVE SkippedComments(_, _)
SkippedComments(comments, listing) ==
    IF comments = <<>> THEN 0
    ELSE LET comment == Head(comments)
             position == calculateDiffPosition(MapGet(listing, comment.path),
                                               comment.position)
         IN  (IF position # Null THEN 0 ELSE 1) + SkippedComments(Tail(comments), listing)

(***************************************************************************)
(* The pull requests and comments createReview is exercised with.          *)
(***************************************************************************)
\* "a.ts", "b.ts", and "c.md", which no pull request of the model changes
FileA == <<"a", ".", "t", "s">>
FileB == <<"b", ".", "t", "s">>
FileC == <<"c", ".", "m", "d">>

\* new lines 20 (context) and 21 (added) at positions 2 and 3
PatchA == JoinLines(<<HunkAt20, ContextLine, AdditionLine>>)
\* new line 1 (added) at position 3, after a deletion
PatchB == JoinLines(<<HunkAt1, DeletionLine, AdditionLine>>)

\* the entries pulls.listFiles can answer; a file too large or binary has
\* no patch
ListedFiles ==
    {[filename |-> FileA, patch |-> PatchA],
     [filename |-> FileA, patch |-> Undefined],
     [filename |-> FileB, patch |-> PatchB]}

\* the listings: every file at most once
Listings ==
    {l \in SeqsOf(ListedFiles, 0, 2) :
        \A i, j \in 1..Len(l) : i # j => l[i].filename # l[j].filename}

ReviewComments ==
    [path : {FileA, FileB, FileC}, position : {1, 20, 21}, body : {"nit", "bug"}]

CommentLists == SeqsOf(ReviewComments, 0, MaxComments)

(***************************************************************************)
(* The source scanner of CodeIndexer: resolveImportPath, extractImports,   *)
(* extractDeclarations, findDeclarationLocation, findDependencies.         *)
(***************************************************************************)
\* \s of the regular expressions
IsSpace(c) == c \in {" ", "\n", "\t", "\r"}

\* \w of the regular expressions
WordChars ==
    {"a", "b", "c", "d", "e", "f", "g", "h", "i", "j", "k", "l", "m", "n", "o", "p", "q",
     "r", "s", "t", "u", "v", "w", "x", "y", "z", "A", "B", "C", "D", "E", "F", "G", "H",
     "I", "J", "K", "L", "M", "N", "O", "P", "Q", "R", "S", "T", "U", "V", "W", "X", "Y",
     "Z", "0", "1", "2", "3", "4", "5", "6", "7", "8", "9", "_"}

IsWord(c) == c \in WordChars

\* end (exclusive) of the longest run of whitespace of s that starts at i
SpaceRunEnd(s, i) ==
    IF i > Len(s) THEN i
    ELSE LeastOr({j \in i..Len(s) : ~IsSpace(s[j])}, Len(s) + 1)

\* end (exclusive) of the longest run of word characters that starts at i
WordRunEnd(s, i) ==
    IF i > Len(s) THEN i
    ELSE LeastOr({j \in i..Len(s) : ~IsWord(s[j])}, Len(s) + 1)

\* the first index from i on that holds a character of C, Len(s) + 1 if none
FirstOf(s, i, C) ==
    IF i > Len(s) THEN i
    ELSE LeastOr({j \in i..Len(s) : s[j] \in C}, Len(s) + 1)

\* String.prototype.indexOf, 1-based; 0 when t does not occur
IndexOf(s, t) == LeastOr({i \in 1..(Len(s) + 1) : OccursAt(s, t, i)}, 0)

\* String.prototype.trim: from the first to the last character that is no
\* whitespace
Trim(s) ==
    LET keep == {i \in 1..Len(s) : ~IsSpace(s[i])}
    IN  IF keep = {} THEN <<>>
        ELSE Slice(s, LeastOr(keep, 1),
                   (CHOOSE x \in keep : \A y \in keep : y <= x) + 1)

\* a spread that goes through no Set: every occurrence is kept
DedupeKeepsAll(list) == list

\* [...new Set(list)] and Array.from(set): first occurrences, in order
Dedupe(list) ==
    LET first(k) == \A h \in 1..(k - 1) : list[h] # list[k]
        kept == SelectSeq([k \in 1..Len(list) |-> k], first)
    IN  [i \in 1..Len(kept) |-> list[kept[i]]]

\* Array.prototype.includes
Contains(list, x) == \E k \in 1..Len(list) : list[k] = x

NoMatch == <<>>

W_import == <<"i", "m", "p", "o", "r", "t">>
W_from == <<"f", "r", "o", "m">>
W_as == <<"a", "s">>
W_export == <<"e", "x", "p", "o", "r", "t">>
W_node_modules == <<"n", "o", "d", "e", "_", "m", "o", "d", "u", "l", "e", "s">>
Quotes == {"'", "\""}

\* the first segment kept for every package
PackageOfFirstSegment(parts) == parts[1]

\* resolveImportPath, once the path is split at `/`
PackageOf(parts) ==
    IF StartsWith(parts[1], <<"@">>)
    THEN IF Len(parts) >= 2 THEN parts[1] \o <<"/">> \o parts[2] ELSE parts[1]
    ELSE parts[1]

\* resolveImportPath
resolveImportPath(importPath) ==
    IF StartsWith(importPath, <<".">>) THEN importPath
    ELSE PackageOf(SplitAt(importPath, "/"))

\* The pieces of the regular expressions.  A piece is tried at an index and
\* answers the index after what it consumed, 0 when it fails; a piece tried
\* at 0 fails.
\* a literal word
Literal(s, t, i) == IF OccursAt(s, t, i) THEN i + Len(t) ELSE 0

\* \s+
SpacePlus(s, i) == IF i > 0 /\ SpaceRunEnd(s, i) > i THEN SpaceRunEnd(s, i) ELSE 0

\* \w+
WordPlus(s, i) == IF i > 0 /\ WordRunEnd(s, i) > i THEN WordRunEnd(s, i) ELSE 0

\* {[^}]*} from its opening brace at i, the first closing brace given
BraceClauseEnd(s, close) == IF close <= Len(s) THEN close + 1 ELSE 0

\* the import clause (?:{[^}]*}|\*\s+as\s+\w+|\w+) tried at i
ImportClauseEnd(s, i) ==
    IF i = 0 \/ i > Len(s) THEN 0
    ELSE IF s[i] = "{" THEN BraceClauseEnd(s, FirstOf(s, i + 1, {"}"}))
    ELSE IF s[i] = "*"
    THEN WordPlus(s, SpacePlus(s, Literal(s, W_as, SpacePlus(s, i + 1))))
    ELSE WordPlus(s, i)

\* import\s+(?:{[^}]*}|\*\s+as\s+\w+|\w+)\s+from\s+ tried at i
ImportHeadEnd(s, i) ==
    SpacePlus(s, Literal(s, W_from,
        SpacePlus(s, ImportClauseEnd(s, SpacePlus(s, Literal(s, W_import, i))))))

\* ([^'"]+)['"] after the opening quote at e, the next quote given: [from,
\* to, end] of the capture group and of the match (exclusive ends), or
\* NoMatch
ImportCapture(s, e, f) ==
    IF f > e + 1 /\ f <= Len(s) THEN <<e + 1, f, f + 1>> ELSE NoMatch

\* ['"]([^'"]+)['"] tried at e
ImportTailAt(s, e) ==
    IF e = 0 \/ e > Len(s) THEN NoMatch
    ELSE IF s[e] \notin Quotes THEN NoMatch
    ELSE ImportCapture(s, e, FirstOf(s, e + 1, Quotes))

\* /import\s+(?:{[^}]*}|\*\s+as\s+\w+|\w+)\s+from\s+['"]([^'"]+)['"]/ tried
\* at i
ImportMatchAt(s, i) == ImportTailAt(s, ImportHeadEnd(s, i))

\* the first match at or after i (RegExp.prototype.exec from lastIndex)
ImportSearch(s, i) ==
    ImportMatchAt(s, LeastOr({j \in i..Len(s) : ImportMatchAt(s, j) # NoMatch}, 0))

\* `if (!importPath.startsWith('node_modules')) imports.push(...)`
ImportTarget(importPath) ==
    IF ~StartsWith(importPath, W_node_modules) THEN <<resolveImportPath(importPath)>>
    ELSE <<>>

\* the `while ((match = importRegex.exec(content)) !== null)` loop
RECURSIVE ImportsFrom(_, _)
RECURSIVE ImportsAfter(_, _)
ImportsFrom(s, i) == ImportsAfter(s, ImportSearch(s, i))

ImportsAfter(s, m) ==
    IF m = NoMatch THEN <<>>
    ELSE ImportTarget(Slice(s, m[1], m[2])) \o ImportsFrom(s, m[3])

extractImports(content) == ImportsFrom(content, 1)

KW_CLASS == <<"c", "l", "a", "s", "s">>
KW_INTERFACE == <<"i", "n", "t", "e", "r", "f", "a", "c", "e">>
KW_TYPE == <<"t", "y", "p", "e">>
KW_ENUM == <<"e", "n", "u", "m">>
KW_FUNCTION == <<"f", "u", "n", "c", "t", "i", "o", "n">>
KW_CONST == <<"c", "o", "n", "s", "t">>
KW_VAR == <<"v", "a", "r">>
KW_NAMESPACE == <<"n", "a", "m", "e", "s", "p", "a", "c", "e">>

\* the keywords of the declaration pattern, in the order of its alternation
DeclarationKeywords ==
    <<KW_CLASS,
      KW_INTERFACE,
      KW_TYPE,
      KW_ENUM,
      KW_FUNCTION,
      KW_CONST,
      KW_VAR,
      KW_NAMESPACE>>

\* (\w+) tried at b: [from, to] of the name, or NoMatch
NameSpan(s, b) == IF WordPlus(s, b) > 0 THEN <<b, WordPlus(s, b)>> ELSE NoMatch

\* keyword\s+(\w+) tried at i for one keyword
KeywordSpan(s, i, keyword) == NameSpan(s, SpacePlus(s, Literal(s, keyword, i)))

\* the kth keyword of the alternation, none for k = 0
KeywordPick(s, i, k) ==
    IF k = 0 THEN NoMatch ELSE KeywordSpan(s, i, DeclarationKeywords[k])

\* (?:class|...|namespace)\s+(\w+) tried at i: [from, to] of the name (to is
\* the end of the match), or NoMatch
KeywordMatchAt(s, i) ==
    KeywordPick(s, i,
        LeastOr({k \in 1..Len(DeclarationKeywords) :
                    KeywordSpan(s, i, DeclarationKeywords[k]) # NoMatch}, 0))

\* (?:export\s+)? is greedy: the match with it is preferred to the one
\* without
DeclarationSpan(i, withExport, without) ==
    IF withExport # NoMatch THEN <<i, withExport[1], withExport[2]>>
    ELSE IF without # NoMatch THEN <<i, without[1], without[2]>>
    ELSE NoMatch

\* the declaration pattern tried at i: [index, from, to] of the match and of
\* the name, or NoMatch
DeclarationMatchAt(s, i) ==
    DeclarationSpan(i, KeywordMatchAt(s, SpacePlus(s, Literal(s, W_export, i))),
                    KeywordMatchAt(s, i))

\* the first match at or after i
DeclarationSearch(s, i) ==
    DeclarationMatchAt(s,
        LeastOr({j \in i..Len(s) : DeclarationMatchAt(s, j) # NoMatch}, 0))

\* getDeclarationType
getDeclarationType(declaration) ==
    IF Includes(declaration, KW_CLASS) THEN "class"
    ELSE IF Includes(declaration, KW_INTERFACE) THEN "interface"
    ELSE IF Includes(declaration, KW_TYPE) THEN "type"
    ELSE IF Includes(declaration, KW_ENUM) THEN "enum"
    ELSE IF Includes(declaration, KW_FUNCTION) THEN "function"
    ELSE IF Includes(declaration, KW_CONST) THEN "const"
    ELSE IF Includes(declaration, KW_VAR) THEN "var"
    ELSE IF Includes(declaration, KW_NAMESPACE) THEN "namespace"
    ELSE "type"

\* the first loop of findDeclarationLocation: the last line whose text is
\* first found (content.indexOf) at or before the match; startIndex is the
\* 1-based index of the match
StartLineOf(content, lines, startIndex) ==
    LeastOr({i \in 1..Len(lines) :
                /\ IndexOf(content, lines[i]) <= startIndex
                /\ \A h \in (i + 1)..Len(lines) :
                      IndexOf(content, lines[h]) > startIndex}, 1)

\* the braces of a line: the number of `{` less the number of `}`
BraceDelta(line) ==
    Cardinality({k \in 1..Len(line) : line[k] = "{"})
        - Cardinality({k \in 1..Len(line) : line[k] = "}"})

\* `if (line.includes('/*')) inComment = true;
\*  if (line.includes('*/')) inComment = false`
CommentAfter(line, inComment) ==
    IF Includes(line, <<"*", "/">>) THEN FALSE
    ELSE IF Includes(line, <<"/", "*">>) THEN TRUE
    ELSE inComment

\* the second loop of findDeclarationLocation, from line i (1-based) on
RECURSIVE EndLineFrom(_, _, _, _)
RECURSIVE EndLineStep(_, _, _, _, _)
EndLineFrom(lines, i, braceCount, inComment) ==
    IF i > Len(lines) THEN Len(lines)
    ELSE EndLineStep(lines, i, braceCount, inComment, Trim(lines[i]))

\* one iteration, for the trimmed line
EndLineStep(lines, i, braceCount, inComment, line) ==
    IF StartsWith(line, <<"/", "/">>)
    THEN EndLineFrom(lines, i + 1, braceCount, inComment)
    ELSE IF CommentAfter(line, inComment)
    THEN EndLineFrom(lines, i + 1, braceCount, TRUE)
    ELSE IF braceCount + BraceDelta(line) = 0 /\ ~Includes(line, <<"{">>) THEN i
    ELSE EndLineFrom(lines, i + 1, braceCount + BraceDelta(line), FALSE)

\* the end line counted from 0
LocationFromZeroBased(lines, startLine) ==
    [startLine |-> startLine, endLine |-> EndLineFrom(lines, startLine, 0, FALSE) - 1]

\* the location, the start line found
LocationFrom(lines, startLine) ==
    [startLine |-> startLine, endLine |-> EndLineFrom(lines, startLine, 0, FALSE)]

\* findDeclarationLocation
findDeclarationLocation(content, startIndex) ==
    LocationFrom(SplitLines(content),
                 StartLineOf(content, SplitLines(content), startIndex))

\* `if (importMatch) dependencies.add(...)` for the match of one line
LineDependency(line, m) ==
    IF m # NoMatch THEN <<resolveImportPath(Slice(line, m[1], m[2]))>> ELSE <<>>

\* the loop of findDependencies over the lines i .. last
RECURSIVE LineDependencies(_, _, _)
LineDependencies(lines, i, last) ==
    IF i > last \/ i > Len(lines) THEN <<>>
    ELSE LineDependency(lines[i], ImportSearch(lines[i], 1))
             \o LineDependencies(lines, i + 1, last)

\* findDependencies
findDependencies(content, location) ==
    Dedupe(LineDependencies(SplitLines(content), location.startLine, location.endLine))

\* the declaration pushed for a match
Declaration(content, text, name, location) ==
    [type |-> getDeclarationType(text),
     name |-> name,
     location |-> location,
     exported |-> Includes(text, W_export),
     dependencies |-> findDependencies(content, location)]

\* the `while ((match = declarationRegex.exec(content)) !== null)` loop
RECURSIVE DeclarationsFrom(_, _)
RECURSIVE DeclarationsAfter(_, _)
DeclarationsFrom(s, i) == DeclarationsAfter(s, DeclarationSearch(s, i))

DeclarationsAfter(s, m) ==
    IF m = NoMatch THEN <<>>
    ELSE <<Declaration(s, Slice(s, m[1], m[3]), Slice(s, m[2], m[3]),
                       findDeclarationLocation(s, m[1]))>>
             \o DeclarationsFrom(s, m[3])

extractDeclarations(content) == DeclarationsFrom(content, 1)

\* match.index of every match of the loop of extractDeclarations
RECURSIVE MatchIndexesFrom(_, _)
RECURSIVE MatchIndexesAfter(_, _)
MatchIndexesFrom(s, i) == MatchIndexesAfter(s, DeclarationSearch(s, i))

MatchIndexesAfter(s, m) ==
    IF m = NoMatch THEN {} ELSE {m[1]} \cup MatchIndexesFrom(s, m[3])

\* the loop index left where it is
NextLineStuck(i) == i

\* `i++` of the line walk
NextLine(i) == i + 1

(***************************************************************************)
(* The content-fetch provider CodeIndexer reads through GitHubService:     *)
(* getRepoContent and getFileContent over a repository tree.               *)
(***************************************************************************)
\* `string | null` where a text is expected: null is a sequence that is no
\* text
NullText == <<"null">>

\* `if (content)`: neither null nor the empty string
Truthy(content) == content # NullText /\ content # <<>>

\* a getRepoContent that answers the listing although the request failed
getRepoContentUnfailing(provider, path) ==
    IF path \notin DOMAIN provider.tree THEN <<>>
    ELSE IF provider.tree[path].kind = "dir" THEN provider.tree[path].items
    ELSE <<[path |-> path, type |-> "file"]>>

\* GitHubService.getRepoContent: the entries of a directory, the single
\* entry of a file, nothing when the request fails (the catch answers [])
getRepoContent(provider, path) ==
    IF path \in provider.down \/ path \notin DOMAIN provider.tree THEN <<>>
    ELSE IF provider.tree[path].kind = "dir" THEN provider.tree[path].items
    ELSE <<[path |-> path, type |-> "file"]>>

\* GitHubService.getFileContent: the decoded content of a file, null for a
\* directory and when the request fails (the catch answers null)
getFileContent(provider, path) ==
    IF path \in provider.down \/ path \notin DOMAIN provider.tree THEN NullText
    ELSE IF provider.tree[path].kind = "file" THEN provider.tree[path].content
    ELSE NullText

(***************************************************************************)
(* CodeIndexer: file selection.                                            *)
(***************************************************************************)
BatchSize == 10
RemainingLimit == 100

S_ts == <<".", "t", "s">>
S_d_ts == <<".", "d", ".", "t", "s">>
S_dist == <<"d", "i", "s", "t">>

\* baseDirs
BaseDirs ==
    <<<<>>,
      <<"s", "r", "c">>,
      <<"l", "i", "b">>,
      <<"p", "a", "c", "k", "a", "g", "e", "s">>,
      <<"t", "e", "s", "t">>,
      <<"t", "e", "s", "t", "s">>,
      <<"_", "_", "t", "e", "s", "t", "s", "_", "_">>>>

\* the predicate of filterTypeScriptFiles
IsTypeScriptFile(file) ==
    /\ EndsWith(file, S_ts)
    /\ ~EndsWith(file, S_d_ts)
    /\ ~Includes(file, W_node_modules)
    /\ ~Includes(file, S_dist)

\* Array.prototype.filter with a predicate
Filter(list, Keep(_)) == SelectSeq(list, Keep)

filterTypeScriptFiles(files) == Filter(files, IsTypeScriptFile)

\* processDirectory: the eligible files below dir, in listing order, every
\* subdirectory read where it is listed
RECURSIVE processDirectory(_, _)
RECURSIVE ProcessItems(_, _, _)
processDirectory(provider, dir) == ProcessItems(provider, getRepoContent(provider, dir), 1)

ProcessItems(provider, items, k) ==
    IF k > Len(items) THEN <<>>
    ELSE (IF items[k].type = "dir" THEN processDirectory(provider, items[k].path)
          ELSE IF items[k].type = "file" THEN filterTypeScriptFiles(<<items[k].path>>)
          ELSE <<>>) \o ProcessItems(provider, items, k + 1)

\* `for (const dir of baseDirs) await processDirectory(dir)`
RECURSIVE TraverseFrom(_, _)
TraverseFrom(provider, k) ==
    IF k > Len(BaseDirs) THEN <<>>
    ELSE processDirectory(provider, BaseDirs[k]) \o TraverseFrom(provider, k + 1)

\* a Record<string, T>: its entries in insertion order
MapHas(m, key) == \E k \in 1..Len(m) : m[k].key = key

\* m[key] || []
MapGetOrEmpty(m, key) ==
    IF MapHas(m, key) THEN m[CHOOSE k \in 1..Len(m) : m[k].key = key].value ELSE <<>>

\* m[key] = value
MapPut(m, key, value) ==
    IF MapHas(m, key)
    THEN [k \in 1..Len(m) |-> IF m[k].key = key THEN [key |-> key, value |-> value] ELSE m[k]]
    ELSE Append(m, [key |-> key, value |-> value])

\* the import targets of the given files as `imports` records them
RECURSIVE ImportsOfFiles(_, _)
ImportsOfFiles(files, imports) ==
    IF files = <<>> THEN <<>>
    ELSE MapGetOrEmpty(imports, Head(files)) \o ImportsOfFiles(Tail(files), imports)

\* findRelatedFiles
findRelatedFiles(files, imports) == Dedupe(ImportsOfFiles(files, imports))

\* the prioritized partition: the candidates whose path includes a
\* prioritized path
Prioritized(files, prioritizedFiles) ==
    LET matches(file) ==
            \E k \in 1..Len(prioritizedFiles) : Includes(file, prioritizedFiles[k])
    IN  Filter(files, matches)

\* a slice that is not taken: the whole list
TakeAll(list, n) == list

\* Array.prototype.slice(0, n)
Take(list, n) == IF Len(list) <= n THEN list ELSE SubSeq(list, 1, n)

\* the remaining partition
Remaining(files, prioritized, relatedFiles) ==
    LET other(file) == ~Contains(prioritized, file) /\ ~Contains(relatedFiles, file)
    IN  Take(Filter(files, other), RemainingLimit)

\* no candidate at all: the traversal warns and answers []
NoCandidatesThrows == [threw |-> TRUE, files |-> <<>>, warned |-> 0]

NoCandidates == [threw |-> FALSE, files |-> <<>>, warned |-> 1]

\* getTypeScriptFiles for the candidates the traversal found
SelectFiles(files, prioritizedFiles, imports) ==
    IF Len(files) = 0 THEN NoCandidates
    ELSE LET prioritized == Prioritized(files, prioritizedFiles)
             relatedFiles == findRelatedFiles(prioritized, imports)
             remaining == Remaining(files, prioritized, relatedFiles)
             allFiles == Dedupe(prioritized \o relatedFiles \o remaining)
         IN  IF Len(allFiles) = 0
             THEN [threw |-> TRUE, files |-> <<>>, warned |-> 0]
             ELSE [threw |-> FALSE, files |-> allFiles, warned |-> 0]

\* getTypeScriptFiles
getTypeScriptFiles(provider, prioritizedFiles, imports) ==
    SelectFiles(TraverseFrom(provider, 1), prioritizedFiles, imports)

(***************************************************************************)
(* CodeIndexer.indexCodebase: the batches.                                 *)
(***************************************************************************)
\* tsFiles.slice(i, i + 10), i counted from 0
BatchAt(tsFiles, i) ==
    SubSeq(tsFiles, i + 1, IF i + BatchSize <= Len(tsFiles) THEN i + BatchSize ELSE Len(tsFiles))

\* a batch whose promises are not awaited: the loop goes on at once
NotAwaited(inFlight) == TRUE

\* `await Promise.all(...)` of promises that never reject: the loop goes on
\* when none of the fetches is in flight any more
AllSettled(inFlight) == inFlight = {}

\* a fetch that has not settled yet
Pending == <<"pending">>

\* results kept in the order the fetches complete in
SettleSlotByCompletion(contents, j) ==
    CHOOSE k \in 1..Len(contents) :
        contents[k] = Pending /\ \A h \in 1..(k - 1) : contents[h] # Pending

\* Promise.all: the result of the fetch issued for batch[j] is contents[j]
SettleSlot(contents, j) == j

\* dependencies[imp] = [file] for every import of a file: the importers
\* registered before are lost
RECURSIVE RegisterImportsOverwriting(_, _, _)
RegisterImportsOverwriting(dependencies, fileImports, file) ==
    IF fileImports = <<>> THEN dependencies
    ELSE RegisterImportsOverwriting(
             MapPut(dependencies, Head(fileImports), <<file>>),
             Tail(fileImports), file)

\* dependencies[imp].push(file) for every import of a file
RECURSIVE RegisterImports(_, _, _)
RegisterImports(dependencies, fileImports, file) ==
    IF fileImports = <<>> THEN dependencies
    ELSE RegisterImports(
             MapPut(dependencies, Head(fileImports),
                    Append(MapGetOrEmpty(dependencies, Head(fileImports)), file)),
             Tail(fileImports), file)

\* a null content taken for a file's text
IndexableAlways(content) == TRUE

\* `if (content)`
Indexable(content) == Truthy(content)

\* the body of `if (content)`, declarations and fileImports extracted
IndexedWith(acc, file, content, declarations, fileImports) ==
    [files |-> Append(acc.files,
                      [path |-> file, content |-> content, declarations |-> declarations]),
     imports |-> MapPut(acc.imports, file, fileImports),
     dependencies |-> RegisterImports(acc.dependencies, fileImports, file)]

\* the body of `for (let j = 0; j < batch.length; j++)` for one file
IndexFile(acc, file, content) ==
    IF Indexable(content)
    THEN IndexedWith(acc, file, content, extractDeclarations(content),
                     extractImports(content))
    ELSE acc

\* the loop over a settled batch
RECURSIVE IndexBatch(_, _, _, _)
IndexBatch(acc, batch, contents, j) ==
    IF j > Len(batch) THEN acc
    ELSE IndexBatch(IndexFile(acc, batch[j], contents[j]), batch, contents, j + 1)

EmptyIndex == [files |-> <<>>, imports |-> <<>>, dependencies |-> <<>>]

\* the locals of a call kept from the call before
CallLocalsKept(earlier) == earlier

\* `const files = []; const dependencies = {}; const imports = {}`: the
\* locals of a call are created by it, whatever an earlier call built
CallLocals(earlier) == EmptyIndex

(***************************************************************************)
(* The retrying remote fetcher: the retry policy of the source, and        *)
(* withRetry as section 4.1 of the specification describes it.             *)
(***************************************************************************)
\* one attempt more than the policy allows
MAX_RETRIES_OneMore == 3 + 1

MAX_RETRIES == 3
INITIAL_RETRY_DELAY == 1000
MAX_RETRY_DELAY == 10000

\* RATE_LIMIT_CONFIG.onRateLimit: warns, and answers "keep retrying"
onRateLimit(retryAfter) == TRUE

\* RATE_LIMIT_CONFIG.onSecondaryRateLimit: warns, and answers "keep retrying"
onSecondaryRateLimit(retryAfter) == TRUE

\* the hook consulted for a rate-limit signal of the given kind
RateLimitHook(kind, retryAfter) ==
    IF kind = "primary" THEN onRateLimit(retryAfter) ELSE onSecondaryRateLimit(retryAfter)

\* the policies withRetry is exercised with: the RATE_LIMIT_CONFIG of the
\* source, and hooks of the same type that answer "stop retrying"
Policies == {"RATE_LIMIT_CONFIG", "vetoing"}

\* the answer of the hook of a policy
HookAnswer(policy, kind, retryAfter) ==
    IF policy = "RATE_LIMIT_CONFIG" THEN RateLimitHook(kind, retryAfter) ELSE FALSE

\* no wait at all before the next attempt
CooldownSkipped(retryAfter) == retryAfter - retryAfter

\* the provider-specified cooldown, given in seconds, in milliseconds
Cooldown(retryAfter) == retryAfter * 1000

\* the delay left as it is after a backoff wait
NextDelayUndoubled(delay) == delay

\* the delay after a backoff wait: doubled, capped at maxDelay
NextDelay(delay) ==
    IF delay * 2 > MAX_RETRY_DELAY THEN MAX_RETRY_DELAY ELSE delay * 2

\* what an operation can answer: a value, a plain error, a rate-limit signal
\* with the cooldown (in seconds) the provider asks for
OperationValues == {"v1", "v2"}
OperationErrors == {"e1", "e2"}
RateLimitKinds == {"primary", "secondary"}
RetryAfterSeconds == {1, 60}

OkOutcome(v) == [kind |-> "ok", what |-> v, retryAfter |-> 0]
ErrorOutcome(e) == [kind |-> "error", what |-> e, retryAfter |-> 0]
RateLimitOutcome(k, ra) == [kind |-> k, what |-> "rate-limited", retryAfter |-> ra]

\* whether the attempt just made was the last one the policy allows
Exhausted(attempts) == attempts >= MAX_RETRIES

(***************************************************************************)
(* The repositories, outages and changed-file lists indexCodebase is       *)
(* exercised with.                                                         *)
(***************************************************************************)
\* largest number of paths whose requests fail during one indexing
MaxDown == 1

Dir(items) == [kind |-> "dir", items |-> items, content |-> <<>>]
File(content) == [kind |-> "file", items |-> <<>>, content |-> content]
DirItem(path) == [path |-> path, type |-> "dir"]
FileItem(path) == [path |-> path, type |-> "file"]
P_root == <<>>
P_src == <<"s", "r", "c">>
P_lib == <<"l", "i", "b">>
P_dist == <<"d", "i", "s", "t">>
P_docs == <<"d", "o", "c", "s">>
P_readme == <<"R", "E", "A", "D", "M", "E", ".", "m", "d">>
P_index_ts == <<"i", "n", "d", "e", "x", ".", "t", "s">>
P_main_ts == <<"m", "a", "i", "n", ".", "t", "s">>
P_src_a == <<"s", "r", "c", "/", "a", ".", "t", "s">>
P_src_b == <<"s", "r", "c", "/", "b", ".", "t", "s">>
P_src_c == <<"s", "r", "c", "/", "c", ".", "t", "s">>
P_src_types == <<"s", "r", "c", "/", "t", "y", "p", "e", "s", ".", "d", ".", "t", "s">>
P_dist_x == <<"d", "i", "s", "t", "/", "x", ".", "t", "s">>
P_b_ts == <<"b", ".", "t", "s">>

\* lib/a.ts .. lib/k.ts
LibLetters == <<"a", "b", "c", "d", "e", "f", "g", "h", "i", "j", "k">>
LibPath(c) == P_lib \o <<"/", c, ".", "t", "s">>
LibPaths == [k \in 1..Len(LibLetters) |-> LibPath(LibLetters[k])]

\* file contents
C_src_a == <<"i", "m", "p", "o", "r", "t", " ", "{", "b", "}", " ", "f", "r", "o", "m", " ", "'",
             ".", "/", "b", "'", "\n", "i", "m", "p", "o", "r", "t", " ", "c", " ", "f", "r",
             "o", "m", " ", "'", "s", "r", "c", "/", "b", ".", "t", "s", "'", "\n", "e", "x",
             "p", "o", "r", "t", " ", "c", "o", "n", "s", "t", " ", "a", " ", "=", " ", "b">>
C_src_b == <<"e", "x", "p", "o", "r", "t", " ", "f", "u", "n", "c", "t", "i", "o", "n", " ", "b",
             "(", ")", " ", "{", "\n", " ", " ", "r", "e", "t", "u", "r", "n", " ", "1", "\n",
             "}">>
C_src_c == <<"i", "m", "p", "o", "r", "t", " ", "{", "b", "}", " ", "f", "r", "o", "m", " ", "'",
             ".", "/", "b", "'", "\n", "v", "a", "r", " ", "c">>
C_types == <<"t", "y", "p", "e", " ", "T", " ", "=", " ", "1">>
C_text == <<"x">>
C_main == <<"i", "m", "p", "o", "r", "t", " ", "*", " ", "a", "s", " ", "l", " ", "f", "r", "o",
            "m", " ", "'", "@", "x", "/", "y", "/", "z", "'", "\n", "c", "l", "a", "s", "s", " ",
            "M", " ", "{", "}", "\n">>
C_import_k == <<"i", "m", "p", "o", "r", "t", " ", "k", " ", "f", "r", "o", "m", " ", "'", ".",
                "/", "k", "'", "\n">>

\* "var <letter>", and for a.ts and k.ts an import of './k' before it
LibContent(c) ==
    (IF c \in {"a", "k"} THEN C_import_k ELSE <<>>) \o <<"v", "a", "r", " ", c>>

\* a small repository: src/ holds a.ts, c.ts, b.ts in that order; a.ts and
\* c.ts import b.ts; index.ts is empty
RepoSmall ==
    (P_root :> Dir(<<DirItem(P_src), FileItem(P_readme), FileItem(P_index_ts)>>))
    @@ (P_src :> Dir(<<FileItem(P_src_a), FileItem(P_src_c), FileItem(P_src_b),
                       FileItem(P_src_types)>>))
    @@ (P_src_a :> File(C_src_a))
    @@ (P_src_b :> File(C_src_b))
    @@ (P_src_c :> File(C_src_c))
    @@ (P_src_types :> File(C_types))
    @@ (P_readme :> File(C_text))
    @@ (P_index_ts :> File(<<>>))

\* a repository without eligible files: a README, a build directory, a
\* symbolic link, and `lib`, which is a file
RepoEmpty ==
    (P_root :> Dir(<<FileItem(P_readme), DirItem(P_dist),
                     [path |-> P_docs, type |-> "symlink"], FileItem(P_lib)>>))
    @@ (P_dist :> Dir(<<FileItem(P_dist_x)>>))
    @@ (P_dist_x :> File(C_text))
    @@ (P_readme :> File(C_text))
    @@ (P_lib :> File(C_text))

\* a repository of twelve eligible files: lib/a.ts .. lib/k.ts and main.ts
RepoBig ==
    [p \in {LibPaths[k] : k \in 1..Len(LibPaths)} |->
        File(LibContent(p[Len(P_lib) + 2]))]
    @@ (P_root :> Dir(<<DirItem(P_lib), FileItem(P_main_ts)>>))
    @@ (P_lib :> Dir([k \in 1..Len(LibPaths) |-> FileItem(LibPaths[k])]))
    @@ (P_main_ts :> File(C_main))

\* the repositories, each with the paths whose requests may fail
Repositories ==
    {[tree |-> RepoSmall, flaky |-> {P_src_b, P_src}],
     [tree |-> RepoEmpty, flaky |-> {P_root}],
     [tree |-> RepoBig, flaky |-> {LibPath("b"), LibPath("k")}]}

\* the providers: a repository and the paths that are down
Providers ==
    UNION {{[tree |-> r.tree, down |-> d] :
               d \in {x \in SUBSET r.flaky : Cardinality(x) <= MaxDown}} :
           r \in Repositories}

\* the provider before any call: nothing to read
NoProvider == [tree |-> [p \in {} |-> Dir(<<>>)], down |-> {}]

\* the changed-file lists
PrioritizedChoices ==
    {<<>>, <<P_src_a>>, <<P_b_ts>>, <<LibPath("k"), P_main_ts>>}

\* import maps getTypeScriptFiles may be handed: none, a.ts importing b.ts
\* and itself, lib/k.ts importing main.ts and lib/a.ts
ImportsOfA == <<[key |-> P_src_a, value |-> <<P_src_b, P_src_a>>]>>

ImportMaps ==
    {<<>>,
     ImportsOfA,
     <<[key |-> LibPath("k"), value |-> <<P_main_ts, LibPath("a")>>],
       [key |-> P_main_ts, value |-> <<LibPath("a"), LibPath("c")>>]>>}

\* lib/f000.ts .. lib/f999.ts
ManyPath(n) ==
    P_lib \o <<"/", "f", Digits[(n \div 100) + 1], Digits[((n \div 10) % 10) + 1],
               Digits[(n % 10) + 1], ".", "t", "s">>

\* a repository of n files lib/f001.ts .. and main.ts, the root listing lib/
\* before main.ts
ManyFiles(n) ==
    [p \in {ManyPath(k) : k \in 1..n} |-> File(C_text)]
    @@ (P_root :> Dir(<<DirItem(P_lib), FileItem(P_main_ts)>>))
    @@ (P_lib :> Dir([k \in 1..n |-> FileItem(ManyPath(k))]))
    @@ (P_main_ts :> File(C_main))

\* the providers getTypeScriptFiles is run on: those of indexCodebase, and
\* repositories with about RemainingLimit files below lib/
SelectProviders ==
    Providers
    \cup {[tree |-> ManyFiles(n), down |-> {}] : n \in (RemainingLimit - 1)..MaxLibFiles}

\* the configurations of the action: config.review
Configs ==
    [autoApprove : BOOLEAN, autoMerge : BOOLEAN, qualityThreshold : {5, 8}]

\* the metrics of a review: all good, too complex, not secure enough
MetricsChoices ==
    {[complexity |-> 7, maintainability |-> 6, securityScore |-> 8, performanceScore |-> 8],
     [complexity |-> 8, maintainability |-> 9, securityScore |-> 9, performanceScore |-> 9],
     [complexity |-> 3, maintainability |-> 9, securityScore |-> 7, performanceScore |-> 9]}

\* the reviews llmService.reviewCode answers
ReviewResults ==
    [overallQuality : {4, 8}, approvalRecommended : BOOLEAN, metrics : MetricsChoices]

\* the remote call of a run that rejects, if one does
RemoteCalls == {"prepare", "createReview", "mergeAfterReview", "approve", "mergeAfterApproval"}

NoReview ==
    [overallQuality |-> 0, approvalRecommended |-> FALSE,
     metrics |-> [complexity |-> 0, maintainability |-> 0, securityScore |-> 0,
                  performanceScore |-> 0]]

\* the result before indexCodebase returned
NoResult == [files |-> <<>>, dependencies |-> <<>>, imports |-> <<>>, returned |-> FALSE]

(***************************************************************************)
(* The source texts the scanner is exercised with.                         *)
(***************************************************************************)
\* "export function f() {"
FunctionHeader == <<"e", "x", "p", "o", "r", "t", " ", "f", "u", "n", "c", "t", "i", "o", "n", " ", "f", "(",
      ")", " ", "{">>

\* the lines before the function: a blank line, the comment "// }"
PrefixLines == {<<>>, <<"/", "/", " ", "}">>}

\* the lines of its body: "a", a blank line
BodyLines == {<<"a">>, <<>>}

\* the lines after it: none, or the empty last line of a text that ends with
\* a line break
TailLines == {<<>>, <<<<>>>>}

\* texts of one exported function on the lines 3 to 7, without an import
ExportedFunctionTexts ==
    {JoinLines(<<p1, p2, FunctionHeader, b1, b2, b3, <<"}">>>> \o tail) :
        p1 \in PrefixLines, p2 \in PrefixLines,
        b1 \in BodyLines, b2 \in BodyLines, b3 \in BodyLines, tail \in TailLines}

\* the lines short texts are made of: declarations with and without a
\* block, a closing brace, the markers of a block comment, a blank line
ScanLines ==
    {<<"v", "a", "r", " ", "a">>,
     <<"c", "l", "a", "s", "s", " ", "C", " ", "{">>,
     <<"}">>,
     <<"/", "*", " ", "x">>,
     <<"*", "/">>,
     <<>>}

\* every text of up to MaxScanLines of these lines
SmallTexts == {JoinLines(ls) : ls \in SeqsOf(ScanLines, 1, MaxScanLines)}

\* the lines that open a block comment: "/* x", "/* {", "{ /*"
OpeningLines ==
    {<<"/", "*", " ", "x">>, <<"/", "*", " ", "{">>, <<"{", " ", "/", "*">>}

\* the lines that close it: "*/", "} */", "*/ }"
ClosingLines ==
    {<<"*", "/">>, <<"}", " ", "*", "/">>, <<"*", "/", " ", "}">>}

\* the lines with a whole block comment: "/* { */", "/* } */ }"
CommentLines ==
    {<<"/", "*", " ", "{", " ", "*", "/">>,
     <<"/", "*", " ", "}", " ", "*", "/", " ", "}">>}

\* a class whose body holds a block comment over two lines or on one line
CommentTexts ==
    {JoinLines(<<<<"c", "l", "a", "s", "s", " ", "C", " ", "{">>, open, close, <<"}">>>>) :
        open \in OpeningLines, close \in ClosingLines}
    \cup {JoinLines(<<<<"c", "l", "a", "s", "s", " ", "C", " ", "{">>, line, <<"}">>>>) :
             line \in CommentLines}

\* import statements of the three clause forms, with the path each names:
\* import {a} from './utils', import * as p from '@scope/pkg/sub',
\* import d from 'lodash/fp', import s from "@solo"
ImportStatements ==
    {[line |-> <<"i", "m", "p", "o", "r", "t", " ", "{", "a", "}", " ", "f", "r", "o", "m", " ",
                "'", ".", "/", "u", "t", "i", "l", "s", "'">>,
      path |-> <<".", "/", "u", "t", "i", "l", "s">>],
     [line |-> <<"i", "m", "p", "o", "r", "t", " ", "*", " ", "a", "s", " ", "p", " ", "f", "r",
                "o", "m", " ", "'", "@", "s", "c", "o", "p", "e", "/", "p", "k", "g", "/", "s",
                "u", "b", "'">>,
      path |-> <<"@", "s", "c", "o", "p", "e", "/", "p", "k", "g", "/", "s", "u", "b">>],
     [line |-> <<"i", "m", "p", "o", "r", "t", " ", "d", " ", "f", "r", "o", "m", " ", "'", "l",
                "o", "d", "a", "s", "h", "/", "f", "p", "'">>,
      path |-> <<"l", "o", "d", "a", "s", "h", "/", "f", "p">>],
     [line |-> <<"i", "m", "p", "o", "r", "t", " ", "s", " ", "f", "r", "o", "m", " ", "\"", "@",
                "s", "o", "l", "o", "\"">>,
      path |-> <<"@", "s", "o", "l", "o">>]}

\* the text of a list of import statements, one per line
ImportText(statements) == JoinLines([k \in 1..Len(statements) |-> statements[k].line])

\* every text of up to MaxImportLines import statements
ImportTexts == {ImportText(st) : st \in SeqsOf(ImportStatements, 1, MaxImportLines)}

\* the contents the scanner is applied to
ScanContents == ExportedFunctionTexts \cup SmallTexts \cup ImportTexts \cup CommentTexts

(***************************************************************************)
(* The state before any call, and what each component leaves alone.        *)
(***************************************************************************)
MapperIdle ==
    /\ mPc = "idle"
    /\ mPatch = Undefined
    /\ mTarget = 0
    /\ mLines = <<>>
    /\ mIdx = 0
    /\ mSt = DiffStart
    /\ mResult = Null

ReviewIdle ==
    /\ rPc = "idle"
    /\ rComments = NoList
    /\ rListing = <<>>
    /\ rPayload = NoList
    /\ rWarnings = 0
    /\ rError = "none"

RetryIdle ==
    /\ wPc = "idle"
    /\ wPolicy = "none"
    /\ wOutcomes = <<>>
    /\ wDelay = INITIAL_RETRY_DELAY
    /\ wPending = 0
    /\ wWaits = <<>>
    /\ wWarnings = 0
    /\ wResult = "none"
    /\ wRaised = "none"

IndexIdle ==
    /\ iPc = "idle"
    /\ iProvider = NoProvider
    /\ iPrioritized = <<>>
    /\ iRun = 0
    /\ iFirst = NoResult
    /\ iTsFiles = <<>>
    /\ iBatchStart = 0
    /\ iContents = <<>>
    /\ iInFlight = {}
    /\ iFiles = <<>>
    /\ iImports = <<>>
    /\ iDependencies = <<>>
    /\ iWarnings = 0
    /\ iResult = NoResult

ScanIdle ==
    /\ sPc = "idle"
    /\ sContent = <<>>
    /\ sDeclarations = <<>>
    /\ sImports = <<>>

LocateIdle ==
    /\ lPc = "idle"
    /\ lContent = <<>>
    /\ lStartIndex = 0
    /\ lLines = <<>>
    /\ lStart = 0
    /\ lI = 0
    /\ lBrace = 0
    /\ lInComment = FALSE
    /\ lEnd = 0
    /\ lVisited = <<>>

SelectIdle ==
    /\ gPc = "idle"
    /\ gProvider = NoProvider
    /\ gPrioritized = <<>>
    /\ gImports = <<>>
    /\ gFiles = <<>>
    /\ gResult = [threw |-> FALSE, files |-> <<>>, warned |-> 0]

WorkflowIdle ==
    /\ pPc = "idle"
    /\ pConfig = [autoApprove |-> FALSE, autoMerge |-> FALSE, qualityThreshold |-> 0]
    /\ pReview = NoReview
    /\ pFailAt = "none"
    /\ pEvent = "none"
    /\ pApprovals = 0
    /\ pMerges = 0
    /\ pRaised = FALSE

OnlyMapper ==
    UNCHANGED <<reviewVars, retryVars, indexVars, scanVars, locateVars, selectVars, workflowVars>>

OnlyReview ==
    UNCHANGED <<mapperVars, retryVars, indexVars, scanVars, locateVars, selectVars, workflowVars>>

OnlyRetry ==
    UNCHANGED <<mapperVars, reviewVars, indexVars, scanVars, locateVars, selectVars, workflowVars>>

OnlyIndex ==
    UNCHANGED <<mapperVars, reviewVars, retryVars, scanVars, locateVars, selectVars, workflowVars>>

OnlyScan ==
    UNCHANGED <<mapperVars, reviewVars, retryVars, indexVars, locateVars, selectVars, workflowVars>>

OnlyLocate ==
    UNCHANGED <<mapperVars, reviewVars, retryVars, indexVars, scanVars, selectVars, workflowVars>>

OnlySelect ==
    UNCHANGED <<mapperVars, reviewVars, retryVars, indexVars, scanVars, locateVars, workflowVars>>

OnlyWorkflow ==
    UNCHANGED <<mapperVars, reviewVars, retryVars, indexVars, scanVars, locateVars, selectVars>>

(***************************************************************************)
(* One call of calculateDiffPosition, an iteration of its loop per step.   *)
(***************************************************************************)
\* the call with an undefined or empty patch: `if (!patch) return null`
MapperCallNoPatch ==
    /\ mPc = "idle"
    /\ \E patch \in {Undefined, <<>>}, t \in TargetLines :
          /\ Falsy(patch)
          /\ mPatch' = patch
          /\ mTarget' = t
    /\ mPc' = "done"
    /\ mResult' = Null
    /\ UNCHANGED <<mLines, mIdx, mSt>>
    /\ OnlyMapper

\* the call with a patch: split it and enter the loop
MapperCallPatch ==
    /\ mPc = "idle"
    /\ \E patch \in PatchTexts, t \in TargetLines :
          /\ ~Falsy(patch)
          /\ mPatch' = patch
          /\ mTarget' = t
          /\ mLines' = SplitLines(patch)
    /\ mPc' = "loop"
    /\ mIdx' = 1
    /\ mSt' = DiffStart
    /\ UNCHANGED mResult
    /\ OnlyMapper

\* one iteration of the loop
MapperIter ==
    /\ mPc = "loop"
    /\ mIdx <= Len(mLines)
    /\ LET nx == DiffStep(mSt, mLines[mIdx], mTarget)
       IN  /\ mSt' = nx
           /\ mIdx' = mIdx + 1
           /\ mResult' = nx.result
           /\ mPc' = IF nx.result # Null THEN "done" ELSE "loop"
    /\ UNCHANGED <<mPatch, mTarget, mLines>>
    /\ OnlyMapper

\* the loop ran out of lines: `return null`
MapperEnd ==
    /\ mPc = "loop"
    /\ mIdx > Len(mLines)
    /\ mPc' = "done"
    /\ mResult' = Null
    /\ UNCHANGED <<mPatch, mTarget, mLines, mIdx, mSt>>
    /\ OnlyMapper

(***************************************************************************)
(* One call of createReview, a step per remote answer.                     *)
(***************************************************************************)
\* createReview is called, with or without comments; it awaits listFiles
ReviewCall ==
    /\ rPc = "idle"
    /\ \E c \in {NoList} \cup {<<l>> : l \in CommentLists} : rComments' = c
    /\ rPc' = "listFiles"
    /\ UNCHANGED <<rListing, rPayload, rWarnings, rError>>
    /\ OnlyReview

\* listFiles answers: the comments are mapped and the review is sent
ReviewListed ==
    /\ rPc = "listFiles"
    /\ \E listing \in Listings :
          /\ rListing' = listing
          /\ rPayload' = IF rComments = NoList THEN NoList
                         ELSE <<ValidComments(rComments[1], listing)>>
          /\ rWarnings' = IF rComments = NoList THEN 0
                          ELSE SkippedComments(rComments[1], listing)
    /\ rPc' = "createReview"
    /\ UNCHANGED <<rComments, rError>>
    /\ OnlyReview

\* listFiles rejects: createReview rejects with it
ReviewListFailed ==
    /\ rPc = "listFiles"
    /\ rPc' = "failed"
    /\ rError' = "listFiles"
    /\ UNCHANGED <<rComments, rListing, rPayload, rWarnings>>
    /\ OnlyReview

\* pulls.createReview accepts the review
ReviewPosted ==
    /\ rPc = "createReview"
    /\ rPc' = "submitted"
    /\ UNCHANGED <<rComments, rListing, rPayload, rWarnings, rError>>
    /\ OnlyReview

\* pulls.createReview rejects: createReview rejects with it
ReviewPostFailed ==
    /\ rPc = "createReview"
    /\ rPc' = "failed"
    /\ rError' = "createReview"
    /\ UNCHANGED <<rComments, rListing, rPayload, rWarnings>>
    /\ OnlyReview

(***************************************************************************)
(* One call of withRetry, a step per attempt and per wait.                 *)
(***************************************************************************)
\* withRetry(operation) is called
RetryCall ==
    /\ wPc = "idle"
    /\ wPc' = "attempt"
    /\ wPolicy' \in Policies
    /\ UNCHANGED <<wOutcomes, wDelay, wPending, wWaits, wWarnings, wResult, wRaised>>
    /\ OnlyRetry

\* an attempt succeeds: its value is returned
RetryAttemptOk ==
    /\ wPc = "attempt"
    /\ \E v \in OperationValues :
          /\ wOutcomes' = Append(wOutcomes, OkOutcome(v))
          /\ wResult' = v
    /\ wPc' = "returned"
    /\ UNCHANGED <<wPolicy, wDelay, wPending, wWaits, wWarnings, wRaised>>
    /\ OnlyRetry

\* an attempt fails: after the final attempt the error is raised, before it
\* the backoff wait starts
RetryAttemptFailed ==
    /\ wPc = "attempt"
    /\ \E e \in OperationErrors :
          /\ wOutcomes' = Append(wOutcomes, ErrorOutcome(e))
          /\ IF Exhausted(Len(wOutcomes) + 1)
             THEN wPc' = "raised" /\ wRaised' = e /\ wPending' = wPending
             ELSE wPc' = "backoff" /\ wRaised' = wRaised /\ wPending' = wDelay
    /\ UNCHANGED <<wPolicy, wDelay, wWaits, wWarnings, wResult>>
    /\ OnlyRetry

\* an attempt is answered by a rate-limit signal: the hook is consulted and
\* warns; on its veto, or after the final attempt, the error is raised,
\* otherwise the provider's cooldown is waited
RetryAttemptRateLimited ==
    /\ wPc = "attempt"
    /\ \E k \in RateLimitKinds, ra \in RetryAfterSeconds :
          /\ wOutcomes' = Append(wOutcomes, RateLimitOutcome(k, ra))
          /\ IF ~HookAnswer(wPolicy, k, ra) \/ Exhausted(Len(wOutcomes) + 1)
             THEN wPc' = "raised" /\ wRaised' = "rate-limited" /\ wPending' = wPending
             ELSE wPc' = "cooldown" /\ wRaised' = wRaised /\ wPending' = Cooldown(ra)
    /\ wWarnings' = wWarnings + 1
    /\ UNCHANGED <<wPolicy, wDelay, wWaits, wResult>>
    /\ OnlyRetry

\* the wait is over: the next attempt starts; a backoff wait doubles the delay
RetryWaited ==
    /\ wPc \in {"backoff", "cooldown"}
    /\ wWaits' = Append(wWaits, wPending)
    /\ wDelay' = IF wPc = "backoff" THEN NextDelay(wDelay) ELSE wDelay
    /\ wPending' = 0
    /\ wPc' = "attempt"
    /\ UNCHANGED <<wPolicy, wOutcomes, wWarnings, wResult, wRaised>>
    /\ OnlyRetry

(***************************************************************************)
(* indexCodebase, called twice in a row with the same arguments: a step    *)
(* per await, and a step per fetch of a batch that settles.                *)
(***************************************************************************)
\* the locals files, imports and dependencies take the values of acc
IndexAccumulated(acc) ==
    /\ iFiles' = acc.files
    /\ iImports' = acc.imports
    /\ iDependencies' = acc.dependencies

\* the locals of a call that starts
IndexStarts ==
    /\ iPc' = "selecting"
    /\ iTsFiles' = <<>>
    /\ iBatchStart' = 0
    /\ iContents' = <<>>
    /\ iInFlight' = {}
    /\ IndexAccumulated(CallLocals([files |-> iFiles, imports |-> iImports,
                                    dependencies |-> iDependencies]))
    /\ iWarnings' = 0
    /\ iResult' = NoResult

\* indexCodebase(owner, repo, branch, prioritizedFiles) is called; it awaits
\* getTypeScriptFiles
IndexCall ==
    /\ iPc = "idle"
    /\ \E provider \in Providers, prioritizedFiles \in PrioritizedChoices :
          /\ iProvider' = provider
          /\ iPrioritized' = prioritizedFiles
    /\ iRun' = 1
    /\ IndexStarts
    /\ UNCHANGED iFirst
    /\ OnlyIndex

\* what indexCodebase keeps of the answer of getTypeScriptFiles
IndexSelection(selected) ==
    /\ iPc' = IF selected.threw THEN "threw" ELSE "loop"
    /\ iTsFiles' = selected.files
    /\ iWarnings' = iWarnings + selected.warned

\* getTypeScriptFiles answers the fetch order, or throws
IndexSelected ==
    /\ iPc = "selecting"
    /\ IndexSelection(getTypeScriptFiles(iProvider, iPrioritized, iImports))
    /\ UNCHANGED <<iProvider, iPrioritized, iRun, iFirst, iBatchStart, iContents,
                   iInFlight, iFiles, iImports, iDependencies, iResult>>
    /\ OnlyIndex

\* the loop takes the next batch and issues a fetch for each of its files
IndexBatchIssued ==
    /\ iPc = "loop"
    /\ iBatchStart < Len(iTsFiles)
    /\ LET batch == BatchAt(iTsFiles, iBatchStart)
       IN  /\ iContents' = [j \in 1..Len(batch) |-> Pending]
           /\ iInFlight' = 1..Len(batch)
    /\ iPc' = "awaiting"
    /\ UNCHANGED <<iProvider, iPrioritized, iRun, iFirst, iTsFiles, iBatchStart,
                   iFiles, iImports, iDependencies, iWarnings, iResult>>
    /\ OnlyIndex

\* one of the fetches in flight settles, in any order
IndexFetchSettled ==
    /\ iPc = "awaiting"
    /\ \E j \in iInFlight :
          /\ iContents' = [iContents EXCEPT ![SettleSlot(iContents, j)] =
                              getFileContent(iProvider,
                                             BatchAt(iTsFiles, iBatchStart)[j])]
          /\ iInFlight' = iInFlight \ {j}
    /\ UNCHANGED <<iPc, iProvider, iPrioritized, iRun, iFirst, iTsFiles, iBatchStart,
                   iFiles, iImports, iDependencies, iWarnings, iResult>>
    /\ OnlyIndex

\* every fetch of the batch has settled: Promise.all resolves and the batch
\* is indexed
IndexBatchProcessed ==
    /\ iPc = "awaiting"
    /\ AllSettled(iInFlight)
    /\ IndexAccumulated(IndexBatch([files |-> iFiles, imports |-> iImports,
                                    dependencies |-> iDependencies],
                                   BatchAt(iTsFiles, iBatchStart), iContents, 1))
    /\ iBatchStart' = iBatchStart + BatchSize
    /\ iContents' = <<>>
    /\ iPc' = "loop"
    /\ UNCHANGED <<iProvider, iPrioritized, iRun, iFirst, iTsFiles, iInFlight,
                   iWarnings, iResult>>
    /\ OnlyIndex

\* the loop is over: warn when nothing was indexed, and return
IndexReturned ==
    /\ iPc = "loop"
    /\ iBatchStart >= Len(iTsFiles)
    /\ iWarnings' = iWarnings + (IF Len(iFiles) = 0 THEN 1 ELSE 0)
    /\ iResult' = [files |-> iFiles, dependencies |-> iDependencies,
                   imports |-> iImports, returned |-> TRUE]
    /\ iPc' = "returned"
    /\ UNCHANGED <<iProvider, iPrioritized, iRun, iFirst, iTsFiles, iBatchStart,
                   iContents, iInFlight, iFiles, iImports, iDependencies>>
    /\ OnlyIndex

\* the same call is made a second time, the provider unchanged
IndexCalledAgain ==
    /\ iPc = "returned"
    /\ iRun = 1
    /\ iFirst' = iResult
    /\ iRun' = 2
    /\ IndexStarts
    /\ UNCHANGED <<iProvider, iPrioritized>>
    /\ OnlyIndex

(***************************************************************************)
(* The scanner applied to one content, as indexCodebase applies it to the  *)
(* content of a file.                                                      *)
(***************************************************************************)
\* a content is handed to the scanner
ScanCall ==
    /\ sPc = "idle"
    /\ sContent' \in ScanContents
    /\ sPc' = "called"
    /\ UNCHANGED <<sDeclarations, sImports>>
    /\ OnlyScan

\* extractDeclarations(content) returns
ScanDeclarations ==
    /\ sPc = "called"
    /\ sDeclarations' = extractDeclarations(sContent)
    /\ sPc' = "declared"
    /\ UNCHANGED <<sContent, sImports>>
    /\ OnlyScan

\* extractImports(content) returns
ScanImports ==
    /\ sPc = "declared"
    /\ sImports' = extractImports(sContent)
    /\ sPc' = "done"
    /\ UNCHANGED <<sContent, sDeclarations>>
    /\ OnlyScan

(***************************************************************************)
(* One call of findDeclarationLocation, an iteration of its line walk per  *)
(* step.                                                                   *)
(***************************************************************************)
\* the locals once the first loop has found the start line
LocateFrom(lines, startLine) ==
    /\ lLines' = lines
    /\ lStart' = startLine
    /\ lI' = startLine
    /\ lEnd' = Len(lines)

\* findDeclarationLocation(content, match.index) is called for a match of
\* extractDeclarations; the first loop finds the start line
LocateCall ==
    /\ lPc = "idle"
    /\ \E content \in ScanContents :
          \E startIndex \in MatchIndexesFrom(content, 1) :
              /\ lContent' = content
              /\ lStartIndex' = startIndex
              /\ LocateFrom(SplitLines(content),
                            StartLineOf(content, SplitLines(content), startIndex))
    /\ lBrace' = 0
    /\ lInComment' = FALSE
    /\ lVisited' = <<>>
    /\ lPc' = "walking"
    /\ OnlyLocate

\* the body of the line walk for the trimmed line
WalkLine(line) ==
    IF StartsWith(line, <<"/", "/">>)
    THEN /\ lI' = NextLine(lI)
         /\ lVisited' = Append(lVisited, [line |-> lI, counted |-> FALSE, depth |-> lBrace])
         /\ UNCHANGED <<lBrace, lInComment, lEnd, lPc>>
    ELSE IF CommentAfter(line, lInComment)
    THEN /\ lI' = NextLine(lI)
         /\ lInComment' = TRUE
         /\ lVisited' = Append(lVisited, [line |-> lI, counted |-> FALSE, depth |-> lBrace])
         /\ UNCHANGED <<lBrace, lEnd, lPc>>
    ELSE /\ lInComment' = FALSE
         /\ lBrace' = lBrace + BraceDelta(line)
         /\ lVisited' = Append(lVisited, [line |-> lI, counted |-> TRUE,
                                          depth |-> lBrace + BraceDelta(line)])
         /\ IF lBrace + BraceDelta(line) = 0 /\ ~Includes(line, <<"{">>)
            THEN lEnd' = lI /\ lPc' = "done" /\ lI' = lI
            ELSE lEnd' = lEnd /\ lPc' = lPc /\ lI' = NextLine(lI)

\* one iteration of `for (let i = startLine - 1; i < lines.length; i++)`
LocateStep ==
    /\ lPc = "walking"
    /\ lI <= Len(lLines)
    /\ WalkLine(Trim(lLines[lI]))
    /\ UNCHANGED <<lContent, lStartIndex, lLines, lStart>>
    /\ OnlyLocate

\* the walk has passed the last line: endLine stays lines.length
LocateExit ==
    /\ lPc = "walking"
    /\ lI > Len(lLines)
    /\ lPc' = "done"
    /\ UNCHANGED <<lContent, lStartIndex, lLines, lStart, lI, lBrace, lInComment, lEnd,
                   lVisited>>
    /\ OnlyLocate

(***************************************************************************)
(* One call of getTypeScriptFiles: the traversal, then the partition.      *)
(***************************************************************************)
\* getTypeScriptFiles(owner, repo, branch, prioritizedFiles, imports) is
\* called and starts the traversal of baseDirs
SelectCall ==
    /\ gPc = "idle"
    /\ \E provider \in SelectProviders, prioritizedFiles \in PrioritizedChoices,
          imports \in ImportMaps :
          /\ gProvider' = provider
          /\ gPrioritized' = prioritizedFiles
          /\ gImports' = imports
    /\ gPc' = "traversing"
    /\ UNCHANGED <<gFiles, gResult>>
    /\ OnlySelect

\* the traversal is over; without a candidate the call warns and answers []
SelectTraversed ==
    /\ gPc = "traversing"
    /\ gFiles' = TraverseFrom(gProvider, 1)
    /\ IF Len(TraverseFrom(gProvider, 1)) = 0
       THEN gPc' = "returned" /\ gResult' = SelectFiles(<<>>, gPrioritized, gImports)
       ELSE gPc' = "partitioning" /\ gResult' = gResult
    /\ UNCHANGED <<gProvider, gPrioritized, gImports>>
    /\ OnlySelect

\* the partition, the Set and the answer
SelectPartitioned ==
    /\ gPc = "partitioning"
    /\ gResult' = SelectFiles(gFiles, gPrioritized, gImports)
    /\ gPc' = IF SelectFiles(gFiles, gPrioritized, gImports).threw THEN "threw"
              ELSE "returned"
    /\ UNCHANGED <<gProvider, gPrioritized, gImports, gFiles>>
    /\ OnlySelect

(***************************************************************************)
(* WorkflowService.processReview, one call, a step per remote call awaited.*)
(***************************************************************************)
\* shouldAutoApprove
shouldAutoApprove(reviewResult) ==
    /\ reviewResult.metrics.complexity <= 7
    /\ reviewResult.metrics.maintainability >= 6
    /\ reviewResult.metrics.securityScore >= 8
    /\ reviewResult.metrics.performanceScore >= 8

\* the event postReviewComment posts the review with
ReviewEvent(reviewResult, config) ==
    IF reviewResult.overallQuality >= config.qualityThreshold THEN "APPROVE"
    ELSE "REQUEST_CHANGES"

\* the condition under which processReview calls approveAndMergePR
AutoApproves(reviewResult, config) ==
    /\ config.autoApprove
    /\ reviewResult.approvalRecommended
    /\ shouldAutoApprove(reviewResult)

\* an awaited remote call rejects: processReview logs the error and
\* rethrows
WorkflowThrows ==
    /\ pPc' = "threw"
    /\ pRaised' = TRUE

\* what the steps of a run leave alone
WorkflowKeeps == UNCHANGED <<pConfig, pReview, pFailAt>>

\* processReview(owner, repo, prNumber) is called
WorkflowCall ==
    /\ pPc = "idle"
    /\ pConfig' \in Configs
    /\ pFailAt' \in RemoteCalls \cup {"none"}
    /\ pPc' = "preparing"
    /\ UNCHANGED <<pReview, pEvent, pApprovals, pMerges, pRaised>>
    /\ OnlyWorkflow

\* getPullRequestInfo, loadFileContents, indexCodebase and reviewCode are
\* awaited in turn; postReviewComment builds the comment, translates it and
\* awaits createReview
WorkflowPrepared ==
    /\ pPc = "preparing"
    /\ IF pFailAt = "prepare"
       THEN WorkflowThrows /\ UNCHANGED <<pReview, pEvent>>
       ELSE /\ pReview' \in ReviewResults
            /\ pEvent' = ReviewEvent(pReview', pConfig)
            /\ pPc' = "posting"
            /\ UNCHANGED pRaised
    /\ UNCHANGED <<pConfig, pFailAt, pApprovals, pMerges>>
    /\ OnlyWorkflow

\* createReview settles; postReviewComment goes on to merge when the event
\* is APPROVE and autoMerge is set, and returns otherwise
WorkflowReviewPosted ==
    /\ pPc = "posting"
    /\ IF pFailAt = "createReview" THEN WorkflowThrows
       ELSE /\ pPc' = IF pEvent = "APPROVE" /\ pConfig.autoMerge THEN "mergingAfterReview"
                      ELSE "posted"
            /\ UNCHANGED pRaised
    /\ UNCHANGED <<pEvent, pApprovals, pMerges>>
    /\ WorkflowKeeps
    /\ OnlyWorkflow

\* postReviewComment calls mergePullRequest and awaits it
WorkflowMergedAfterReview ==
    /\ pPc = "mergingAfterReview"
    /\ pMerges' = pMerges + 1
    /\ IF pFailAt = "mergeAfterReview" THEN WorkflowThrows
       ELSE pPc' = "posted" /\ UNCHANGED pRaised
    /\ UNCHANGED <<pEvent, pApprovals>>
    /\ WorkflowKeeps
    /\ OnlyWorkflow

\* postReviewComment has returned: processReview calls approveAndMergePR,
\* which calls approvePullRequest, or completes
WorkflowDecided ==
    /\ pPc = "posted"
    /\ IF AutoApproves(pReview, pConfig)
       THEN pPc' = "approving" /\ pApprovals' = pApprovals + 1
       ELSE pPc' = "completed" /\ pApprovals' = pApprovals
    /\ UNCHANGED <<pEvent, pMerges, pRaised>>
    /\ WorkflowKeeps
    /\ OnlyWorkflow

\* approvePullRequest settles; approveAndMergePR goes on to merge when
\* autoMerge is set
WorkflowApproved ==
    /\ pPc = "approving"
    /\ IF pFailAt = "approve" THEN WorkflowThrows
       ELSE /\ pPc' = IF pConfig.autoMerge THEN "mergingAfterApproval" ELSE "completed"
            /\ UNCHANGED pRaised
    /\ UNCHANGED <<pEvent, pApprovals, pMerges>>
    /\ WorkflowKeeps
    /\ OnlyWorkflow

\* approveAndMergePR calls mergePullRequest and awaits it
WorkflowMergedAfterApproval ==
    /\ pPc = "mergingAfterApproval"
    /\ pMerges' = pMerges + 1
    /\ IF pFailAt = "mergeAfterApproval" THEN WorkflowThrows
       ELSE pPc' = "completed" /\ UNCHANGED pRaised
    /\ UNCHANGED <<pEvent, pApprovals>>
    /\ WorkflowKeeps
    /\ OnlyWorkflow

(***************************************************************************)
(* The specifications.                                                     *)
(***************************************************************************)
InitMapper ==
    MapperIdle /\ ReviewIdle /\ RetryIdle /\ IndexIdle /\ ScanIdle /\ LocateIdle /\ SelectIdle
    /\ WorkflowIdle

NextMapper == MapperCallNoPatch \/ MapperCallPatch \/ MapperIter \/ MapperEnd

SpecMapper == InitMapper /\ [][NextMapper]_vars

InitReview ==
    MapperIdle /\ ReviewIdle /\ RetryIdle /\ IndexIdle /\ ScanIdle /\ LocateIdle /\ SelectIdle
    /\ WorkflowIdle

NextReview ==
    ReviewCall \/ ReviewListed \/ ReviewListFailed \/ ReviewPosted \/ ReviewPostFailed

SpecReview == InitReview /\ [][NextReview]_vars

InitRetry ==
    MapperIdle /\ ReviewIdle /\ RetryIdle /\ IndexIdle /\ ScanIdle /\ LocateIdle /\ SelectIdle
    /\ WorkflowIdle

NextRetry ==
    RetryCall \/ RetryAttemptOk \/ RetryAttemptFailed \/ RetryAttemptRateLimited
        \/ RetryWaited

SpecRetry == InitRetry /\ [][NextRetry]_vars

InitIndex ==
    MapperIdle /\ ReviewIdle /\ RetryIdle /\ IndexIdle /\ ScanIdle /\ LocateIdle /\ SelectIdle
    /\ WorkflowIdle

NextIndex ==
    IndexCall \/ IndexSelected \/ IndexBatchIssued \/ IndexFetchSettled
        \/ IndexBatchProcessed \/ IndexReturned \/ IndexCalledAgain

SpecIndex == InitIndex /\ [][NextIndex]_vars

InitScan ==
    MapperIdle /\ ReviewIdle /\ RetryIdle /\ IndexIdle /\ ScanIdle /\ LocateIdle /\ SelectIdle
    /\ WorkflowIdle

NextScan == ScanCall \/ ScanDeclarations \/ ScanImports

SpecScan == InitScan /\ [][NextScan]_vars

InitLocate ==
    MapperIdle /\ ReviewIdle /\ RetryIdle /\ IndexIdle /\ ScanIdle /\ LocateIdle /\ SelectIdle
    /\ WorkflowIdle

NextLocate == LocateCall \/ LocateStep \/ LocateExit

\* the walk is a synchronous loop: it runs on until it returns
SpecLocate ==
    InitLocate /\ [][NextLocate]_vars /\ WF_vars(LocateStep) /\ WF_vars(LocateExit)

InitSelect ==
    MapperIdle /\ ReviewIdle /\ RetryIdle /\ IndexIdle /\ ScanIdle /\ LocateIdle /\ SelectIdle
    /\ WorkflowIdle

NextSelect == SelectCall \/ SelectTraversed \/ SelectPartitioned

SpecSelect == InitSelect /\ [][NextSelect]_vars

InitWorkflow ==
    MapperIdle /\ ReviewIdle /\ RetryIdle /\ IndexIdle /\ ScanIdle /\ LocateIdle /\ SelectIdle
    /\ WorkflowIdle

NextWorkflow ==
    \/ WorkflowCall
    \/ WorkflowPrepared
    \/ WorkflowReviewPosted
    \/ WorkflowMergedAfterReview
    \/ WorkflowDecided
    \/ WorkflowApproved
    \/ WorkflowMergedAfterApproval

SpecWorkflow == InitWorkflow /\ [][NextWorkflow]_vars

(***************************************************************************)
(* Properties of the model itself.                                         *)
(***************************************************************************)
\* the stepped loop and the operator createReview uses agree
MapperAgrees ==
    mPc = "done" => mResult = calculateDiffPosition(mPatch, mTarget)

(***************************************************************************)
(* Properties of calculateDiffPosition.                                    *)
(***************************************************************************)
\* the new-file start written in the hunk headers of PatchLines
WrittenStart(line) ==
    IF line = HunkAt20 THEN 20 ELSE IF line = HunkAt1 THEN 1 ELSE 0

WellFormedHunks == {HunkAt20, HunkAt1, HunkAt0}

\* the number of lines of a text: one more than its line feeds
NumLines(text) == 1 + Cardinality({i \in 1..Len(text) : text[i] = "\n"})

\* the new-file line counter once lines 1..k of the patch are read
RECURSIVE CounterAfter(_, _)
CounterAfter(lines, k) ==
    IF k = 0 THEN 0
    ELSE IF lines[k] \in WellFormedHunks THEN WrittenStart(lines[k]) - 1
    ELSE IF lines[k] = HunkBad \/ lines[k] = DeletionLine THEN CounterAfter(lines, k - 1)
    ELSE CounterAfter(lines, k - 1) + 1

IsHeaderLine(line) == line \in WellFormedHunks \/ line = HunkBad

\* some line that is no header brings the counter to the target
SomeLineReaches(lines, t) ==
    \E k \in 1..Len(lines) : ~IsHeaderLine(lines[k]) /\ CounterAfter(lines, k) = t

\* C2: for a patch whose first line is a hunk header with new-file start S
\* and whose second line is a context line, calculateDiffPosition(patch, S)
\* returns 2 (header = position 1, first content line = position 2).
C2_HeaderThenContextIsPosition2 ==
    (/\ mPc = "done"
     /\ Len(mLines) >= 2
     /\ mLines[1] \in WellFormedHunks
     /\ mLines[2] = ContextLine
     /\ mTarget = WrittenStart(mLines[1]))
    => mResult = Some(2)

\* the case of the spec: header `@@ -10,5 +20,5 @@`, target 20, answered 2
C2_Witness ==
    /\ mPc = "done"
    /\ Len(mLines) >= 2
    /\ mLines[1] = HunkAt20
    /\ mLines[2] = ContextLine
    /\ mTarget = 20
    /\ mResult = Some(2)

\* C3: for a patch text of n lines and any target line, a position p that
\* calculateDiffPosition returns satisfies 1 <= p <= n.
C3_PositionWithinPatch ==
    (mPc = "done" /\ mResult # Null)
    => (1 <= mResult[1] /\ mResult[1] <= NumLines(mPatch))

\* a match on the last line of a three-line patch: p = n
C3_Witness ==
    /\ mPc = "done"
    /\ mResult # Null
    /\ NumLines(mPatch) = 3
    /\ mResult[1] = 3

\* C4: calculateDiffPosition never raises; it returns null for an undefined
\* or empty patch and for a patch in which no line that is not a hunk header
\* brings the new-file line counter to the target line (and only then).
C4_NullWhenNoLineReachesTarget ==
    /\ mPc \in {"idle", "loop", "done"}
    /\ mPc = "done" =>
          /\ mResult = Null \/ (Len(mResult) = 1 /\ mResult[1] \in Int)
          /\ Falsy(mPatch) => mResult = Null
          /\ ~Falsy(mPatch) =>
                (mResult = Null <=> ~SomeLineReaches(SplitLines(mPatch), mTarget))

\* a patch with a deletion line read to its end without a match
C4_Witness ==
    /\ mPc = "done"
    /\ mResult = Null
    /\ Len(mLines) = 3
    /\ mLines[1] = HunkAt20
    /\ mLines[2] = DeletionLine
    /\ mTarget = 21
    /\ mIdx > Len(mLines)

(***************************************************************************)
(* Properties of createReview.                                             *)
(***************************************************************************)
\* that file's patch in a listing that names every file once
PatchOfFile(listing, path) ==
    IF \E k \in 1..Len(listing) : listing[k].filename = path
    THEN listing[CHOOSE k \in 1..Len(listing) : listing[k].filename = path].patch
    ELSE Undefined

\* the diff position a comment maps to, Null when it has none
PositionOf(listing, comment) ==
    calculateDiffPosition(PatchOfFile(listing, comment.path), comment.position)

\* the indexes of the comments that have a diff position
Mappable(listing, comments) ==
    {i \in 1..Len(comments) : PositionOf(listing, comments[i]) # Null}

\* the place of comment i among the mappable ones
RankIn(K, i) == Cardinality({k \in K : k <= i})

\* C5: createReview submits exactly the inline comments whose (path, line)
\* maps to a diff position in that file's patch, each at its mapped
\* position and in their original relative order; comments without a
\* mapping (also those on a file without a patch) are dropped, and dropping
\* them never fails the submission: only a rejected remote call does.
C5_SubmitsExactlyMappedComments ==
    /\ (rPc \in {"createReview", "submitted"} /\ rComments # NoList) =>
          LET comments == rComments[1]
              K == Mappable(rListing, comments)
          IN  /\ rPayload # NoList
              /\ Len(rPayload[1]) = Cardinality(K)
              /\ \A i \in K :
                    rPayload[1][RankIn(K, i)] =
                        [path |-> comments[i].path,
                         position |-> PositionOf(rListing, comments[i])[1],
                         body |-> comments[i].body]
              /\ rWarnings = Len(comments) - Cardinality(K)
    /\ rPc = "failed" => rError \in {"listFiles", "createReview"}

\* a review submitted with the second of two comments only: the first one is
\* on a file without a patch
C5_Witness ==
    /\ rPc = "submitted"
    /\ rComments # NoList
    /\ Len(rComments[1]) = 2
    /\ MapGet(rListing, rComments[1][1].path) = Undefined
    /\ \E k \in 1..Len(rListing) : rListing[k].filename = rComments[1][1].path
    /\ rPayload = <<(<<[path |-> FileB, position |-> 3, body |-> "bug"]>>)>>
    /\ rWarnings = 1

(***************************************************************************)
(* Properties of withRetry.                                                *)
(***************************************************************************)
\* C10: withRetry invokes the operation at most maxAttempts (3) times; an
\* attempt that succeeds is the last one and its value is returned; when
\* every attempt has failed, the error of the last attempt is raised.
C10_AtMostThreeAttempts ==
    /\ Len(wOutcomes) <= 3
    /\ \A i \in 1..(Len(wOutcomes) - 1) : wOutcomes[i].kind # "ok"
    /\ wPc = "returned" =>
          /\ wOutcomes[Len(wOutcomes)].kind = "ok"
          /\ wResult = wOutcomes[Len(wOutcomes)].what
          /\ wRaised = "none"
    /\ (wOutcomes # <<>> /\ wOutcomes[Len(wOutcomes)].kind = "ok") => wPc = "returned"
    /\ wPc = "raised" =>
          /\ \A i \in 1..Len(wOutcomes) : wOutcomes[i].kind # "ok"
          /\ wRaised = wOutcomes[Len(wOutcomes)].what
          /\ wResult = "none"
    /\ (Len(wOutcomes) = 3 /\ wOutcomes[3].kind # "ok") => wPc = "raised"

\* three failed attempts, the error of the third one raised
C10_Witness ==
    /\ wPc = "raised"
    /\ Len(wOutcomes) = 3
    /\ wOutcomes[1].what = "e1"
    /\ wOutcomes[2].what = "e1"
    /\ wOutcomes[3].what = "e2"
    /\ wRaised = "e2"

\* C11: withRetry on an operation that fails twice and then succeeds returns
\* the success value after exactly 2 backoff waits; the first wait is
\* initialDelay, the second is double the first capped at maxDelay, so it
\* is at least the first and at most maxDelay.
C11_TwoBackoffWaitsThenSuccess ==
    (/\ Len(wOutcomes) = 3
     /\ wOutcomes[1].kind = "error"
     /\ wOutcomes[2].kind = "error"
     /\ wOutcomes[3].kind = "ok")
    => /\ wPc = "returned"
       /\ wResult = wOutcomes[3].what
       /\ wRaised = "none"
       /\ Len(wWaits) = 2
       /\ wWaits[1] = INITIAL_RETRY_DELAY
       /\ wWaits[2] = IF 2 * wWaits[1] > MAX_RETRY_DELAY THEN MAX_RETRY_DELAY
                      ELSE 2 * wWaits[1]
       /\ wWaits[2] >= wWaits[1]
       /\ wWaits[2] <= MAX_RETRY_DELAY

\* two errors, then the value v1, returned after waits of 1000 and 2000
C11_Witness ==
    /\ wPc = "returned"
    /\ wOutcomes = <<ErrorOutcome("e1"), ErrorOutcome("e2"), OkOutcome("v1")>>
    /\ wResult = "v1"
    /\ wWaits = <<1000, 2000>>

\* C12: when the remote signals a primary or secondary rate limit, the hook
\* of that kind is consulted (once per signal, with a warning); if it
\* answers false no further attempt is made and the error is surfaced at
\* once, without a wait; if it answers true the next attempt is made only
\* after a wait of the cooldown the provider specified.
C12_RateLimitHookDecides ==
    /\ wWarnings = Cardinality({i \in 1..Len(wOutcomes) : wOutcomes[i].kind \in RateLimitKinds})
    /\ \A i \in 1..Len(wOutcomes) :
          wOutcomes[i].kind \in RateLimitKinds =>
              IF HookAnswer(wPolicy, wOutcomes[i].kind, wOutcomes[i].retryAfter)
              THEN (i < Len(wOutcomes) \/ wPc = "attempt") =>
                       /\ Len(wWaits) >= i
                       /\ wWaits[i] = wOutcomes[i].retryAfter * 1000
              ELSE /\ i = Len(wOutcomes)
                   /\ wPc = "raised"
                   /\ wRaised = "rate-limited"
                   /\ Len(wWaits) = i - 1

\* a secondary rate limit with a cooldown of 60 seconds under the hooks of
\* the source: the second attempt was made after a wait of 60000 and
\* succeeded
C12_Witness ==
    /\ wPc = "returned"
    /\ wPolicy = "RATE_LIMIT_CONFIG"
    /\ wOutcomes = <<RateLimitOutcome("secondary", 60), OkOutcome("v2")>>
    /\ wWaits = <<60000>>
    /\ wWarnings = 1

(***************************************************************************)
(* Properties of indexCodebase.                                            *)
(***************************************************************************)
\* the place of x in a list, 0 when it is not in it
PlaceOf(list, x) == LeastOr({k \in 1..Len(list) : list[k] = x}, 0)

\* the elements of a list
Elements(list) == {list[k] : k \in 1..Len(list)}

\* the paths of the indexed files
FilePaths(files) == {files[k].path : k \in 1..Len(files)}

\* the files some entry of `dependencies` names as an importer
Importers(dependencies) ==
    UNION {Elements(dependencies[k].value) : k \in 1..Len(dependencies)}

\* the fetch order is known: getTypeScriptFiles has answered
OrderKnown == iPc \in {"loop", "awaiting", "returned"}

\* C1 (as stated): when indexCodebase is called with prioritizedFiles =
\* ['src/a.ts'] and a.ts imports src/b.ts, the file-fetch order places a.ts
\* before b.ts, and b.ts before every remaining file that is neither
\* prioritized nor related.
C1_RelatedBeforeRemaining ==
    (/\ OrderKnown
     /\ iProvider.tree = RepoSmall
     /\ P_src \notin iProvider.down
     /\ iPrioritized = <<P_src_a>>)
    => /\ PlaceOf(iTsFiles, P_src_a) > 0
       /\ PlaceOf(iTsFiles, P_src_a) < PlaceOf(iTsFiles, P_src_b)
       /\ \A k \in 1..Len(iTsFiles) :
             iTsFiles[k] \notin {P_src_a, P_src_b} => PlaceOf(iTsFiles, P_src_b) < k

\* src/ lists a.ts, c.ts, b.ts; a.ts is prioritized and imports b.ts, and
\* the fetch order is a.ts, c.ts, b.ts, index.ts: c.ts, which is neither
\* prioritized nor imported, is fetched before b.ts
C1_Witness ==
    /\ iPc = "returned"
    /\ iProvider.tree = RepoSmall
    /\ iProvider.down = {}
    /\ iPrioritized = <<P_src_a>>
    /\ iTsFiles = <<P_src_a, P_src_c, P_src_b, P_index_ts>>
    /\ MapGetOrEmpty(iImports, P_src_a) = <<<<".", "/", "b">>, P_src>>

C7_ResultsMatchedByPosition ==
    /\ iPc = "awaiting" =>
          \A j \in 1..Len(iContents) :
              j \notin iInFlight =>
                  iContents[j] = getFileContent(iProvider, BatchAt(iTsFiles, iBatchStart)[j])
    /\ iPc \in {"loop", "returned"} =>
          \A k \in 1..Len(iFiles) :
              /\ iFiles[k].content = getFileContent(iProvider, iFiles[k].path)
              /\ iFiles[k].declarations = extractDeclarations(iFiles[k].content)
              /\ MapHas(iImports, iFiles[k].path)
              /\ MapGetOrEmpty(iImports, iFiles[k].path) = extractImports(iFiles[k].content)

\* the fetch of the last file of a batch of ten has settled before the fetch
\* of the first one, and its result is kept at the tenth place
C7_Witness ==
    /\ iPc = "awaiting"
    /\ Len(iContents) = BatchSize
    /\ 1 \in iInFlight
    /\ BatchSize \notin iInFlight
    /\ iContents[1] = Pending
    /\ iContents[BatchSize] = LibContent("j")

\* C8: two runs of indexCodebase with the same arguments against an
\* unchanged provider yield identical files, dependencies and imports,
\* order included, in whatever order the fetches of a batch complete.
C8_SecondRunYieldsTheSameIndex ==
    (iRun = 2 /\ iPc = "returned") =>
        /\ iFirst.returned
        /\ iResult.files = iFirst.files
        /\ iResult.dependencies = iFirst.dependencies
        /\ iResult.imports = iFirst.imports

\* the second run over the repository of twelve files has returned: eleven
\* files of two batches are indexed, two of them import './k'
C8_Witness ==
    /\ iRun = 2
    /\ iPc = "returned"
    /\ iFirst.returned
    /\ Len(iResult.files) = 11
    /\ iProvider.down = {LibPath("b")}
    /\ iResult.dependencies =
          <<[key |-> <<".", "/", "k">>, value |-> <<LibPath("a"), LibPath("k")>>],
            [key |-> <<"@", "x", "/", "y">>, value |-> <<P_main_ts>>]>>

\* C9 (as stated): if the traversal yields no eligible file, indexCodebase
\* raises an error to its caller instead of returning an index: it never
\* returns for an empty candidate list.
C9_RaisesWhenNoCandidates ==
    iPc = "returned" => TraverseFrom(iProvider, 1) # <<>>

\* C9 (amended): if the traversal yields no eligible file, indexCodebase
\* does not raise: getTypeScriptFiles logs a warning and answers the empty
\* list, no file is fetched, and indexCodebase logs a second warning and
\* returns the empty index.  indexCodebase raises in no case.
C9_EmptyIndexWhenNoCandidates ==
    /\ iPc # "threw"
    /\ (iPc \in {"loop", "returned"} /\ TraverseFrom(iProvider, 1) = <<>>) =>
          /\ iTsFiles = <<>>
          /\ iFiles = <<>>
          /\ iPc = "returned" =>
                /\ iResult = [files |-> <<>>, dependencies |-> <<>>, imports |-> <<>>,
                              returned |-> TRUE]
                /\ iWarnings = 2

\* the repository without eligible files was indexed: the empty index is
\* returned, after two warnings
C9_Witness ==
    /\ iPc = "returned"
    /\ iProvider.tree = RepoEmpty
    /\ iProvider.down = {}
    /\ iTsFiles = <<>>
    /\ iResult.returned
    /\ iResult.files = <<>>
    /\ iWarnings = 2

(***************************************************************************)
(* Properties of the scanner.                                              *)
(***************************************************************************)
\* extractDeclarations has returned for the content
Declared == sPc \in {"declared", "done"}

\* C13 (as stated): for every source text that contains a single exported
\* function spanning lines 3 to 7 and no import statement inside it,
\* extractDeclarations returns exactly one Declaration, with kind function,
\* exported = true, span {startLine 3, endLine 7} and no dependencies.
C13_ExportedFunctionSpan ==
    (Declared /\ sContent \in ExportedFunctionTexts) =>
        sDeclarations =
            <<[type |-> "function",
               name |-> <<"f">>,
               location |-> [startLine |-> 3, endLine |-> 7],
               exported |-> TRUE,
               dependencies |-> <<>>]>>

\* the function on the lines 3 to 7 of a text that ends with a line break:
\* the only declaration returned has the span {8, 8}, the empty last line
C13_Witness ==
    /\ Declared
    /\ sContent = JoinLines(<<<<>>, <<>>, FunctionHeader, <<"a">>, <<"a">>, <<"a">>, <<"}">>,
                              <<>>>>)
    /\ sContent \in ExportedFunctionTexts
    /\ Len(sDeclarations) = 1
    /\ sDeclarations[1].type = "function"
    /\ sDeclarations[1].location = [startLine |-> 8, endLine |-> 8]

\* the end (exclusive) of the first n segments of a path: the place of its
\* nth `/`, or the end of the path when it has fewer
SegmentsEnd(path, n) ==
    LeastOr({i \in 1..Len(path) :
                /\ path[i] = "/"
                /\ Cardinality({h \in 1..i : path[h] = "/"}) = n}, Len(path) + 1)

\* what the resolution rule keeps of a path: all of a path that starts with
\* `.`, two segments of one whose first segment starts with `@`, one segment
\* of any other
KeptOf(path) ==
    IF path[1] = "." THEN path
    ELSE SubSeq(path, 1, SegmentsEnd(path, IF path[1] = "@" THEN 2 ELSE 1) - 1)

\* C14: resolveImportPath keeps a path starting with '.' unchanged, reduces
\* a path whose first segment starts with '@' to its first two segments and
\* any other path to its first segment; the imports of a text of import
\* statements are the kept parts of their paths, in statement order, so a
\* file importing ./utils and @scope/pkg/sub yields ['./utils', '@scope/pkg'].
C14_ImportsResolvedInStatementOrder ==
    /\ \A st \in ImportStatements : resolveImportPath(st.path) = KeptOf(st.path)
    /\ sPc = "done" =>
          \A st \in SeqsOf(ImportStatements, 1, MaxImportLines) :
              sContent = ImportText(st) =>
                  sImports = [k \in 1..Len(st) |-> KeptOf(st[k].path)]

\* the text importing ./utils and then @scope/pkg/sub was scanned, and its
\* imports are './utils', '@scope/pkg'
C14_Witness ==
    /\ sPc = "done"
    /\ sContent \in ImportTexts
    /\ Includes(sContent, <<".", "/", "u", "t", "i", "l", "s", "'", "\n">>)
    /\ Includes(sContent, <<"@", "s", "c", "o", "p", "e", "/", "p", "k", "g", "/", "s", "u", "b">>)
    /\ sImports = <<<<".", "/", "u", "t", "i", "l", "s">>,
                    <<"@", "s", "c", "o", "p", "e", "/", "p", "k", "g">>>>

\* C15: every Declaration returned by extractDeclarations, for any content,
\* satisfies 1 <= startLine <= endLine <= number of lines of the content.
C15_SpanWithinContent ==
    Declared =>
        \A k \in 1..Len(sDeclarations) :
            /\ 1 <= sDeclarations[k].location.startLine
            /\ sDeclarations[k].location.startLine <= sDeclarations[k].location.endLine
            /\ sDeclarations[k].location.endLine <= NumLines(sContent)

\* a text of three lines with two declarations: a class over the lines 1 to
\* 2 and a variable on line 3
C15_Witness ==
    /\ Declared
    /\ NumLines(sContent) = 3
    /\ Len(sDeclarations) = 2
    /\ sDeclarations[1].location = [startLine |-> 1, endLine |-> 2]
    /\ sDeclarations[2].location = [startLine |-> 3, endLine |-> 3]

(***************************************************************************)
(* Properties of findDeclarationLocation.                                  *)
(***************************************************************************)
\* no line was examined twice, and none before the start line
ExaminedOnce ==
    /\ \A a \in 1..Len(lVisited) : lVisited[a].line \in lStart..Len(lLines)
    /\ \A a \in 1..Len(lVisited) :
          \A b \in 1..Len(lVisited) : lVisited[a].line = lVisited[b].line => a = b

\* the brace count was zero after no line the walk counted braces on
NeverBalanced == \A a \in 1..Len(lVisited) : lVisited[a].counted => lVisited[a].depth # 0

\* C16: the declaration scan terminates for every input, including content
\* with unbalanced braces or an unterminated block comment: the line walk
\* examines each line from startLine on at most once and then returns, with
\* the location findDeclarationLocation answers; when the brace depth never
\* returns to zero, endLine is the last line of the content.
C16_LineWalkTerminates ==
    /\ [](/\ ExaminedOnce
          /\ lPc = "done" =>
                /\ [startLine |-> lStart, endLine |-> lEnd]
                       = findDeclarationLocation(lContent, lStartIndex)
                /\ NeverBalanced => lEnd = NumLines(lContent))
    /\ (lPc = "walking" ~> lPc = "done")

\* a class whose brace is never closed, followed by a block comment that is
\* never closed: the walk has examined the three lines once each and
\* returned, endLine is line 3
C16_Witness ==
    /\ lPc = "done"
    /\ lStart = 1
    /\ Len(lLines) = 3
    /\ Len(lVisited) = 3
    /\ lBrace = 1
    /\ lInComment
    /\ lEnd = 3

\* prioritized ++ related ++ remaining for the candidates `files`, before
\* the Set
Concatenated(files, prioritizedFiles, imports) ==
    Prioritized(files, prioritizedFiles)
    \o findRelatedFiles(Prioritized(files, prioritizedFiles), imports)
    \o Remaining(files, Prioritized(files, prioritizedFiles),
                 findRelatedFiles(Prioritized(files, prioritizedFiles), imports))

\* order holds every element of list once, in the order of their first
\* places in list
FirstOccurrences(order, list) ==
    /\ \A i, j \in 1..Len(order) : i # j => order[i] # order[j]
    /\ Elements(order) = Elements(list)
    /\ \A i, j \in 1..Len(order) :
          i < j => PlaceOf(list, order[i]) < PlaceOf(list, order[j])

\* C17: the fetch order returned by file selection is prioritized ++
\* related ++ remaining with every path kept only at its first occurrence:
\* no path occurs twice in it (even though the root traversal and the
\* conventional source-root traversals list the same files), and the
\* relative order of first occurrences is preserved.  Checked on the order
\* indexCodebase received (it hands getTypeScriptFiles its empty `imports`),
\* and on what getTypeScriptFiles answers for the same candidates with each
\* import map.
C17_FetchOrderFirstOccurrences ==
    OrderKnown =>
       /\ FirstOccurrences(iTsFiles,
                           Concatenated(TraverseFrom(iProvider, 1), iPrioritized, <<>>))
       /\ (iPc = "loop" /\ iBatchStart = 0) =>
             \A imports \in ImportMaps :
                FirstOccurrences(
                    getTypeScriptFiles(iProvider, iPrioritized, imports).files,
                    Concatenated(TraverseFrom(iProvider, 1), iPrioritized, imports))

\* src/ is listed twice (below the root, and as a base directory): the
\* candidates are a, c, b, index, a, c, b; a.ts is prioritized, and with
\* a.ts importing b.ts and itself the concatenation a, a, b, a, c, index, c
\* gives the order a, b, c, index
C17_Witness ==
    /\ iPc = "loop"
    /\ iBatchStart = 0
    /\ iProvider.tree = RepoSmall
    /\ iProvider.down = {}
    /\ iPrioritized = <<P_src_a>>
    /\ TraverseFrom(iProvider, 1)
          = <<P_src_a, P_src_c, P_src_b, P_index_ts, P_src_a, P_src_c, P_src_b>>
    /\ iTsFiles = <<P_src_a, P_src_c, P_src_b, P_index_ts>>
    /\ Concatenated(TraverseFrom(iProvider, 1), iPrioritized, ImportsOfA)
          = <<P_src_a, P_src_a, P_src_b, P_src_a, P_src_c, P_index_ts, P_src_c>>
    /\ getTypeScriptFiles(iProvider, iPrioritized, ImportsOfA).files
          = <<P_src_a, P_src_b, P_src_c, P_index_ts>>

\* the repository of provider with every directory whose listing fails
\* emptied, and no request failing
Readable(provider) ==
    [tree |-> [p \in DOMAIN provider.tree |->
                  IF p \in provider.down /\ provider.tree[p].kind = "dir"
                  THEN [kind |-> "dir", items |-> <<>>, content |-> <<>>]
                  ELSE provider.tree[p]],
     down |-> {}]

\* the base directories that cannot be listed: missing, or failing
Unlistable(provider) ==
    {k \in 1..Len(BaseDirs) :
        BaseDirs[k] \notin DOMAIN provider.tree \/ BaseDirs[k] \in provider.down}

\* C18: a candidate root directory or subdirectory whose listing fails or
\* that does not exist contributes no files and raises no error: traversal
\* continues with the remaining directories and indexCodebase still
\* returns.  indexCodebase never ends by throwing; the fetch order is the
\* one of the repository with the failing directories emptied, so the other
\* directories are all read; a returned call returned a result.
C18_UnlistableDirectorySkipped ==
    /\ iPc # "threw"
    /\ OrderKnown =>
          /\ \A k \in Unlistable(iProvider) :
                processDirectory(iProvider, BaseDirs[k]) = <<>>
          /\ iTsFiles = getTypeScriptFiles(Readable(iProvider), iPrioritized, <<>>).files
    /\ iPc = "returned" =>
          /\ iResult.returned
          /\ FilePaths(iResult.files) \subseteq Elements(iTsFiles)

\* the listing of src/ fails (below the root and as a base directory) and
\* five base directories do not exist: index.ts, listed by the root after
\* src/, is the only candidate, and indexCodebase returns
C18_Witness ==
    /\ iPc = "returned"
    /\ iProvider.tree = RepoSmall
    /\ iProvider.down = {P_src}
    /\ Cardinality(Unlistable(iProvider)) = 6
    /\ iTsFiles = <<P_index_ts>>
    /\ iResult.returned

\* the files whose content fetch is in flight
InFlightFiles ==
    {BatchAt(iTsFiles, iBatchStart)[j] :
        j \in iInFlight \cap (1..Len(BatchAt(iTsFiles, iBatchStart)))}

\* a step that issues content fetches
FetchesIssued == iInFlight' \ iInFlight # {} \/ (iPc = "loop" /\ iPc' = "awaiting")

\* C19: during indexCodebase no content fetch of batch N+1 is issued before
\* every fetch of batch N has settled, so at most 10 content fetches are in
\* flight at any time.  Fetches are issued only when none is in flight and
\* every file before the batch has had its fetch awaited; the files in
\* flight are files of one batch, at most 10.
C19_BatchesStrictlySequential ==
    /\ [](/\ Cardinality(InFlightFiles) <= 10
          /\ Cardinality(iInFlight) = Cardinality(InFlightFiles)
          /\ InFlightFiles \subseteq Elements(BatchAt(iTsFiles, iBatchStart)))
    /\ [][FetchesIssued =>
             /\ iInFlight = {}
             /\ iContents = <<>>
             /\ iBatchStart' = iBatchStart
             /\ Cardinality(iInFlight') <= 10
             /\ \A k \in 1..iBatchStart :
                   k <= Len(iTsFiles) /\ Truthy(getFileContent(iProvider, iTsFiles[k]))
                      => iTsFiles[k] \in FilePaths(iFiles')]_vars

\* twelve files to fetch: the ten fetches of the first batch have settled
\* and their files are indexed, and the two fetches of the second batch
\* are in flight
C19_Witness ==
    /\ iPc = "awaiting"
    /\ Len(iTsFiles) = 12
    /\ iBatchStart = 10
    /\ iInFlight = {1, 2}
    /\ Len(iFiles) = 10

(***************************************************************************)
(* Properties of the positions calculateDiffPosition returns.              *)
(***************************************************************************)
\* a line of the new file: an addition or a context line
IsNewFileLine(line) == line # <<>> /\ line[1] \in {"+", " "}

\* the place of the hunk header that encloses line p, 0 when there is none
EnclosingHeader(lines, p) ==
    LeastOr({k \in 1..(p - 1) :
                /\ lines[k] \in WellFormedHunks
                /\ \A h \in (k + 1)..(p - 1) : lines[h] \notin WellFormedHunks}, 0)

\* the new-file line number of line p, which header h encloses: the start
\* the header writes for the first new-file line after it, one more for
\* each further one
NewFileLineNumber(lines, h, p) ==
    WrittenStart(lines[h])
    + Cardinality({k \in (h + 1)..p : IsNewFileLine(lines[k])}) - 1

\* C20 (as stated): whenever calculateDiffPosition(patch, targetLine)
\* returns a position p, patch line p is an addition or context line (never
\* a hunk header and never a deletion line) and its new-file line number,
\* as determined by the enclosing hunk header, equals targetLine.
C20_PositionIsTargetLine ==
    (mPc = "done" /\ mResult # Null)
    => /\ mResult[1] \in 1..Len(mLines)
       /\ IsNewFileLine(mLines[mResult[1]])
       /\ EnclosingHeader(mLines, mResult[1]) > 0
       /\ NewFileLineNumber(mLines, EnclosingHeader(mLines, mResult[1]), mResult[1])
             = mTarget

\* the patch "@@ -10,5 +20,5 @@" followed by a deletion line, and target
\* line 19, the line before the hunk: the deletion line, position 2, is
\* returned
C20_Witness ==
    /\ mPc = "done"
    /\ mLines = <<HunkAt20, DeletionLine>>
    /\ mTarget = 19
    /\ mResult = Some(2)

(***************************************************************************)
(* Properties of the start line.                                           *)
(***************************************************************************)
\* the 1-indexed line that holds the character at the 1-based index: one
\* more than the line feeds before it
LineHolding(content, index) ==
    1 + Cardinality({k \in 1..(index - 1) : content[k] = "\n"})

\* C21 (as stated): for every declaration match in any content (including
\* content with blank lines, repeated identical lines or a trailing
\* newline), the reported startLine is the 1-indexed line that contains the
\* first character of the match.
C21_StartLineHoldsMatch ==
    lPc # "idle" => lStart = LineHolding(lContent, lStartIndex)

\* "var a" on two lines: for the match on line 1 the second line, whose
\* text is first found at offset 0 as well, is reported as the start line
C21_Witness ==
    /\ lPc = "done"
    /\ lLines = <<<<"v", "a", "r", " ", "a">>, <<"v", "a", "r", " ", "a">>>>
    /\ lStartIndex = 1
    /\ LineHolding(lContent, lStartIndex) = 1
    /\ lStart = 2

(***************************************************************************)
(* Properties of the brace count.                                          *)
(***************************************************************************)
\* a line read character by character from k on, a block comment open or
\* not: the braces outside block comments (`{` less `}`) added to delta,
\* and whether a block comment is open at the end of the line
RECURSIVE OutsideComments(_, _, _, _)
OutsideComments(line, k, inComment, delta) ==
    IF k > Len(line) THEN [inComment |-> inComment, delta |-> delta]
    ELSE IF inComment
    THEN (IF OccursAt(line, <<"*", "/">>, k)
          THEN OutsideComments(line, k + 2, FALSE, delta)
          ELSE OutsideComments(line, k + 1, TRUE, delta))
    ELSE IF OccursAt(line, <<"/", "*">>, k)
    THEN OutsideComments(line, k + 2, TRUE, delta)
    ELSE OutsideComments(line, k + 1, FALSE,
                         delta + (IF line[k] = "{" THEN 1
                                  ELSE IF line[k] = "}" THEN 0 - 1 ELSE 0))

\* whether a block comment is open where line i begins
RECURSIVE CommentOpenBefore(_, _)
CommentOpenBefore(lines, i) ==
    IF i = 1 THEN FALSE
    ELSE OutsideComments(lines[i - 1], 1, CommentOpenBefore(lines, i - 1), 0).inComment

\* the braces of line i that lie outside block comments
OutsideDelta(lines, i) ==
    OutsideComments(lines[i], 1, CommentOpenBefore(lines, i), 0).delta

\* the brace depth before the k-th line examined
DepthBefore(visited, k) == IF k = 1 THEN 0 ELSE visited[k - 1].depth

\* C22 (as stated): brace characters that lie inside a block comment
\* (between /* and */), including on the comment's opening line and closing
\* line, never change the brace-depth counter that determines a
\* declaration's endLine: a line examined changes the counter by nothing,
\* or by its braces outside block comments.
C22_CommentBracesNotCounted ==
    \A k \in 1..Len(lVisited) :
        lVisited[k].depth - DepthBefore(lVisited, k)
            \in {0, OutsideDelta(lLines, lVisited[k].line)}

\* class C { / /* x / } */ / }: the `}` before the `*/` of the closing line
\* lies inside the comment and brings the counter from 1 to 0, so the walk
\* stops there and the class is said to end on line 3
C22_Witness ==
    /\ lPc = "done"
    /\ lLines = <<<<"c", "l", "a", "s", "s", " ", "C", " ", "{">>,
                  <<"/", "*", " ", "x">>,
                  <<"}", " ", "*", "/">>,
                  <<"}">>>>
    /\ lStart = 1
    /\ Len(lVisited) = 3
    /\ OutsideDelta(lLines, 3) = 0
    /\ lVisited[2].depth = 1
    /\ lVisited[3].depth = 0
    /\ lEnd = 3

(***************************************************************************)
(* Properties of the index indexCodebase accumulates.                      *)
(***************************************************************************)
\* the three accumulating locals
Accumulated == <<iFiles, iImports, iDependencies>>

\* C23: the accumulating files list, the imports map and the dependency
\* graph are written only by the single orchestrating flow and only while
\* no content fetch is in flight: after all fetches of the current batch
\* have settled and before any fetch of the next batch is issued.  A step
\* that changes one of them settles no fetch and issues none, has no fetch
\* in flight before or after it, and finds every content of the batch
\* settled; a fetch that settles only fills its slot of `contents`.
C23_WritesOnlyBetweenBatches ==
    /\ [][Accumulated' # Accumulated =>
             /\ iInFlight = {}
             /\ iInFlight' = {}
             /\ \A j \in 1..Len(iContents) : iContents[j] # Pending]_vars
    /\ [][iInFlight' # iInFlight => Accumulated' = Accumulated]_vars

\* twelve files to fetch: the ten files of the first batch were written
\* after their fetches settled, and no fetch of the second batch is issued
\* yet
C23_Witness ==
    /\ iPc = "loop"
    /\ Len(iTsFiles) = 12
    /\ iBatchStart = 10
    /\ iInFlight = {}
    /\ Len(iFiles) = 10
    /\ Len(iImports) = 10
    /\ iDependencies # <<>>

\* the keys of a Record
Keys(m) == {m[k].key : k \in 1..Len(m)}

\* every value some entry of a Record<string, string[]> lists
Listed(m) == UNION {Elements(m[k].value) : k \in 1..Len(m)}

\* C24: after indexCodebase completes, dependencies is the exact inverse of
\* imports: a path f is listed under dependencies[t] if and only if f is an
\* indexed file and t is in imports[f].  Also, imports has an entry for
\* exactly the indexed files.
C24_DependenciesInverseOfImports ==
    iPc = "returned" =>
       /\ Keys(iResult.imports) = FilePaths(iResult.files)
       /\ \A t \in Keys(iResult.dependencies) \cup Listed(iResult.imports) :
             \A f \in Listed(iResult.dependencies) \cup Keys(iResult.imports)
                         \cup Elements(iTsFiles) :
                (f \in Elements(MapGetOrEmpty(iResult.dependencies, t)))
                   <=> (/\ f \in FilePaths(iResult.files)
                        /\ t \in Elements(MapGetOrEmpty(iResult.imports, f)))

\* a.ts imports './b' and 'src/b.ts', c.ts imports './b': './b' lists a.ts
\* and c.ts, 'src' lists a.ts, and b.ts, which imports nothing, is listed
\* nowhere
C24_Witness ==
    /\ iPc = "returned"
    /\ iProvider.tree = RepoSmall
    /\ iProvider.down = {}
    /\ MapGetOrEmpty(iResult.imports, P_src_a) = <<<<".", "/", "b">>, P_src>>
    /\ MapGetOrEmpty(iResult.imports, P_src_c) = <<<<".", "/", "b">>>>
    /\ MapGetOrEmpty(iResult.imports, P_src_b) = <<>>
    /\ Elements(MapGetOrEmpty(iResult.dependencies, <<".", "/", "b">>)) = {P_src_a, P_src_c}
    /\ MapGetOrEmpty(iResult.dependencies, P_src) = <<P_src_a>>
    /\ P_src_b \notin Listed(iResult.dependencies)

(***************************************************************************)
(* Properties of the import targets.                                       *)
(***************************************************************************)
\* no element of the list occurs twice
NoDuplicates(list) == \A i, j \in 1..Len(list) : i # j => list[i] # list[j]

\* the statement import d from 'lodash/fp'
LodashStatement ==
    CHOOSE st \in ImportStatements : st.path = <<"l", "o", "d", "a", "s", "h", "/", "f", "p">>

\* C25 (as stated): the import-target sequence recorded for a file (the
\* extractImports result stored in imports[file]) contains no duplicate
\* identifier, even when several import statements of the file resolve to
\* the same target.
C25_ImportTargetsWithoutDuplicates ==
    sPc = "done" => NoDuplicates(sImports)

\* two statements that import from 'lodash/fp': the target lodash is
\* recorded twice
C25_Witness ==
    /\ sPc = "done"
    /\ sContent = ImportText(<<LodashStatement, LodashStatement>>)
    /\ sImports = <<<<"l", "o", "d", "a", "s", "h">>, <<"l", "o", "d", "a", "s", "h">>>>

\* the number of entries of the indexed files with the path
TimesIndexed(files, path) == Cardinality({k \in 1..Len(files) : files[k].path = path})

\* C26 (as stated): every file of the fetch order whose content fetch
\* succeeds (returns text, the empty string included) is scanned and
\* appears exactly once in the index's files, with its imports registered
\* in imports and in the dependency graph.
C26_EveryFetchedFileIndexed ==
    iPc = "returned" =>
       \A k \in 1..Len(iTsFiles) :
          getFileContent(iProvider, iTsFiles[k]) # NullText =>
             /\ TimesIndexed(iResult.files, iTsFiles[k]) = 1
             /\ MapHas(iResult.imports, iTsFiles[k])
             /\ MapGetOrEmpty(iResult.imports, iTsFiles[k])
                   = extractImports(getFileContent(iProvider, iTsFiles[k]))
             /\ \A t \in Elements(extractImports(getFileContent(iProvider, iTsFiles[k]))) :
                   iTsFiles[k] \in Elements(MapGetOrEmpty(iResult.dependencies, t))

\* index.ts is an empty file: its fetch answers the empty string, and it is
\* in the fetch order but neither in files nor in imports
C26_Witness ==
    /\ iPc = "returned"
    /\ iProvider.tree = RepoSmall
    /\ iProvider.down = {}
    /\ Contains(iTsFiles, P_index_ts)
    /\ getFileContent(iProvider, P_index_ts) = <<>>
    /\ TimesIndexed(iResult.files, P_index_ts) = 0
    /\ ~MapHas(iResult.imports, P_index_ts)
    /\ TimesIndexed(iResult.files, P_src_a) = 1

(***************************************************************************)
(* Properties of getTypeScriptFiles.                                       *)
(***************************************************************************)
\* a candidate path some prioritized path occurs in
MatchesPrioritized(file, prioritizedFiles) ==
    \E k \in 1..Len(prioritizedFiles) : Includes(file, prioritizedFiles[k])

\* the import targets of the prioritized candidates
RelatedTo(files, prioritizedFiles, imports) ==
    UNION {Elements(MapGetOrEmpty(imports, files[k])) :
              k \in {h \in 1..Len(files) : MatchesPrioritized(files[h], prioritizedFiles)}}

\* the paths of the answered fetch order that are neither prioritized nor
\* related
RemainingReturned ==
    {path \in Elements(gResult.files) :
        /\ ~MatchesPrioritized(path, gPrioritized)
        /\ path \notin RelatedTo(gFiles, gPrioritized, gImports)}

\* C27: the fetch order contains at most 100 paths of the remaining
\* partition, i.e. paths that are neither prioritized nor related, whatever
\* the number of eligible files in the repository.
C27_AtMostHundredRemaining ==
    gPc = "returned" => Cardinality(RemainingReturned) <= 100

\* 102 files below lib/ and main.ts, which is prioritized and imports two
\* paths: 205 candidates, and a fetch order of main.ts, the two related
\* paths and lib/f001.ts .. lib/f100.ts
C27_Witness ==
    /\ gPc = "returned"
    /\ Len(gFiles) = 205
    /\ gPrioritized = <<LibPath("k"), P_main_ts>>
    /\ gImports # <<>> /\ gImports # ImportsOfA
    /\ Cardinality(RemainingReturned) = 100
    /\ Len(gResult.files) = 103
    /\ gResult.files[103] = ManyPath(100)

\* a path that is one of the caller-supplied prioritizedFiles
IsChangedFile(path, prioritizedFiles) == Contains(prioritizedFiles, path)

\* C28 (as stated): a candidate file is placed in the prioritized partition
\* only if its path is equal to one of the caller-supplied prioritizedFiles
\* paths; a file whose path merely contains a changed-file path as a
\* substring is not prioritized.  The prioritized partition holds changed
\* files only, and with no file related, the paths of the fetch order that
\* are no changed files keep the order of the candidates.
C28_PrioritizedByEquality ==
    gPc = "returned" =>
       /\ \A path \in Elements(Prioritized(gFiles, gPrioritized)) :
             IsChangedFile(path, gPrioritized)
       /\ gImports = <<>> =>
             \A i, j \in 1..Len(gResult.files) :
                (/\ i < j
                 /\ ~IsChangedFile(gResult.files[i], gPrioritized)
                 /\ ~IsChangedFile(gResult.files[j], gPrioritized))
                => PlaceOf(gFiles, gResult.files[i]) < PlaceOf(gFiles, gResult.files[j])

\* the changed file is b.ts, which no candidate is; src/b.ts, whose path
\* contains "b.ts", is fetched first, before src/a.ts and src/c.ts, which the
\* traversal lists before it
C28_Witness ==
    /\ gPc = "returned"
    /\ gProvider.tree = RepoSmall
    /\ gProvider.down = {}
    /\ gPrioritized = <<P_b_ts>>
    /\ gImports = <<>>
    /\ ~Contains(gFiles, P_b_ts)
    /\ gFiles[1] = P_src_a
    /\ gResult.files = <<P_src_b, P_src_a, P_src_c, P_index_ts>>

(***************************************************************************)
(* Properties of the counters of calculateDiffPosition.                    *)
(***************************************************************************)
\* the loop examines line mIdx in this step
LineExamined == mPc = "loop" /\ mIdx <= Len(mLines) /\ mIdx' = mIdx + 1

\* C29: in calculateDiffPosition the running diffPosition counter increases
\* by exactly 1 for every patch line examined, hunk headers included,
\* whether the line is an addition, a deletion or context; only the
\* new-file line counter advances conditionally.  diffPosition is the
\* number of lines examined; currentLine is set by a matching hunk header,
\* kept by a header that does not match and by a deletion line, and grows
\* by one on every other line.
C29_PositionCountsEveryLine ==
    /\ [](mPc \in {"loop", "done"} /\ ~Falsy(mPatch) => mSt.diffPosition = mIdx - 1)
    /\ [][LineExamined =>
             /\ mSt'.diffPosition = mSt.diffPosition + 1
             /\ mSt'.currentLine =
                   IF mLines[mIdx] \in WellFormedHunks THEN WrittenStart(mLines[mIdx]) - 1
                   ELSE IF mLines[mIdx] = HunkBad \/ mLines[mIdx] = DeletionLine
                   THEN mSt.currentLine
                   ELSE mSt.currentLine + 1]_vars

\* a header, a deletion and an addition examined: diffPosition is 3 and
\* currentLine went 19, 19, 20
C29_Witness ==
    /\ mPc = "loop"
    /\ mLines = <<HunkAt20, DeletionLine, AdditionLine>>
    /\ mTarget = 21
    /\ mIdx = 4
    /\ mSt.diffPosition = 3
    /\ mSt.currentLine = 20

(***************************************************************************)
(* Properties of processReview.                                            *)
(***************************************************************************)
\* C30 (as stated): in any run of WorkflowService.processReview,
\* mergePullRequest is invoked at most once, also when autoApprove and
\* autoMerge are both enabled and the posted review event is APPROVE.
C30_MergeInvokedAtMostOnce ==
    pMerges <= 1

\* autoApprove and autoMerge set, quality 8 against a threshold of 5, the
\* approval recommended and the metrics good, no remote call failing: the
\* run completes after mergePullRequest was called by postReviewComment
\* and again by approveAndMergePR
C30_Witness ==
    /\ pPc = "completed"
    /\ pConfig = [autoApprove |-> TRUE, autoMerge |-> TRUE, qualityThreshold |-> 5]
    /\ pReview.overallQuality = 8
    /\ pEvent = "APPROVE"
    /\ pFailAt = "none"
    /\ pApprovals = 1
    /\ pMerges = 2
    /\ ~pRaised

====
